---- MODULE Spec2Model ----
(***************************************************************************)
(* Model of the content-generation scripts of the how3.io repository:     *)
(*   complete_content_generator.py  (prose pipeline, here "complete")      *)
(*   statica.py                     (JSON pipeline,  here "statica")       *)
(*   final_json_generator.py        (JSON pipeline,  here "final")         *)
(*   gemini_content_generator.py    (JSON pipeline,  here "gemini")        *)
(*                                                                         *)
(* A text is a sequence of tokens.  A token is a string; the text a        *)
(* sequence stands for is the concatenation of its tokens.  The words of   *)
(* the section headers, the emphasis marker "**", the heading placeholder  *)
(* "{symbol}", the literal strings of the default records and words made   *)
(* of letters only are single tokens; all other tokens are single          *)
(* characters.  The regular expressions of the source are translated to    *)
(* operators over such sequences.                                          *)
(***************************************************************************)
EXTENDS Integers, Sequences, FiniteSets, TLC

(***************************************************************************)
(* Generic helpers (Python built-ins used by the source).                  *)
(***************************************************************************)
Min(S) == CHOOSE x \in S : \A y \in S : x <= y

Max(S) == CHOOSE x \in S : \A y \in S : x >= y

\* str.isspace on the characters of the model's alphabet (regex \s).
IsSpace(c) == c \in {" ", "\n"}

\* regex \d
IsDigit(c) == c \in {"1", "2"}

RECURSIVE LStrip(_)
LStrip(s) == IF s # <<>> /\ IsSpace(Head(s)) THEN LStrip(Tail(s)) ELSE s

RECURSIVE RStrip(_)
RStrip(s) ==
    IF s # <<>> /\ IsSpace(s[Len(s)]) THEN RStrip(SubSeq(s, 1, Len(s) - 1)) ELSE s

\* str.strip()
Strip(s) == RStrip(LStrip(s))

\* First index >= from whose token is not whitespace; Len(s)+1 when none (greedy \s*).
SkipSpace(s, from) ==
    LET I == {i \in from..Len(s) : ~IsSpace(s[i])}
    IN  IF I = {} THEN Len(s) + 1 ELSE Min(I)

\* First index >= from whose token is not a digit; Len(s)+1 when none (greedy \d+).
SkipDigits(s, from) ==
    LET I == {i \in from..Len(s) : ~IsDigit(s[i])}
    IN  IF I = {} THEN Len(s) + 1 ELSE Min(I)

\* First index >= from holding token t; 0 when none.
IndexOf(s, t, from) ==
    LET I == {i \in from..Len(s) : s[i] = t}
    IN  IF I = {} THEN 0 ELSE Min(I)

\* s with every token t removed (str.replace(t, ''), re.sub(t, '', s)).
RECURSIVE RemoveToken(_, _)
RemoveToken(s, t) ==
    IF s = <<>> THEN <<>>
    ELSE IF Head(s) = t THEN RemoveToken(Tail(s), t)
         ELSE <<Head(s)>> \o RemoveToken(Tail(s), t)

\* Python's `sub in s` for sequences: sub is a contiguous part of s.
Contains(s, sub) ==
    \E i \in 1..(Len(s) - Len(sub) + 1) : SubSeq(s, i, i + Len(sub) - 1) = sub

\* ' '.join(parts) for a sequence of texts.
RECURSIVE JoinSpace(_)
JoinSpace(parts) ==
    IF parts = <<>> THEN <<>>
    ELSE IF Len(parts) = 1 THEN parts[1]
         ELSE parts[1] \o <<" ">> \o JoinSpace(Tail(parts))

\* str.lower() on the words of the section headers (re.IGNORECASE); the other
\* tokens of the alphabet have no upper-case form.
LowerCase ==
    ("Value" :> "value") @@ ("VALUE" :> "value")
    @@ ("Generation" :> "generation") @@ ("GENERATION" :> "generation")
    @@ ("Market" :> "market") @@ ("MARKET" :> "market")
    @@ ("Position" :> "position") @@ ("POSITION" :> "position")
    @@ ("Project" :> "project") @@ ("PROJECT" :> "project")
    @@ ("Size" :> "size") @@ ("SIZE" :> "size")
    @@ ("Real" :> "real") @@ ("REAL" :> "real")
    @@ ("World" :> "world") @@ ("WORLD" :> "world")
    @@ ("Impact" :> "impact") @@ ("IMPACT" :> "impact")
    @@ ("Founders" :> "founders") @@ ("FOUNDERS" :> "founders")
    @@ ("Problem" :> "problem") @@ ("PROBLEM" :> "problem")
    @@ ("Solving" :> "solving") @@ ("SOLVING" :> "solving")
    @@ ("Strengths" :> "strengths") @@ ("STRENGTHS" :> "strengths")
    @@ ("Weaknesses" :> "weaknesses") @@ ("WEAKNESSES" :> "weaknesses")
    @@ ("Whitepaper" :> "whitepaper") @@ ("WHITEPAPER" :> "whitepaper")
    @@ ("Summary" :> "summary") @@ ("SUMMARY" :> "summary")

HeaderWords == DOMAIN LowerCase

Lower(t) == IF t \in HeaderWords THEN LowerCase[t] ELSE t

\* str.upper() on the project symbols with lower-case letters; the other
\* symbols of the model ("", " ", symbols in upper case) have none.
UpperCase ==
    ("btc" :> "BTC") @@ ("eth" :> "ETH") @@ ("sol" :> "SOL") @@ ("aptos" :> "APTOS")

Upper(sym) == IF sym \in DOMAIN UpperCase THEN UpperCase[sym] ELSE sym

(***************************************************************************)
(* complete_content_generator.py : extract_section                         *)
(***************************************************************************)
\* The section names of the `sections` table (lines 278-288) as token sequences.
ValueGeneration == <<"Value", " ", "Generation">>

MarketPosition == <<"Market", " ", "Position">>

ProjectSize == <<"Project", " ", "Size">>

RealWorldImpact == <<"Real", " ", "World", " ", "Impact">>

Founders == <<"Founders">>

ProblemSolving == <<"Problem", " ", "Solving">>

Strengths == <<"Strengths">>

Weaknesses == <<"Weaknesses">>

WhitepaperSummary == <<"Whitepaper", " ", "Summary">>

\* The "no next section" argument (next_section=None).
NoSection == <<>>

\* An empty text returned after a failed re.search, in place of None.
NoMatch_empty_text == [hit |-> TRUE, text |-> <<>>]

\* Result of a failed re.search (the function returns None).
NoMatch == [hit |-> FALSE, text |-> <<>>]

\* Does `name` occur in text at index i, ignoring case?
HeaderAt(text, i, name) ==
    /\ i + Len(name) - 1 <= Len(text)
    /\ \A j \in 1..Len(name) : Lower(text[i + j - 1]) = Lower(name[j])

\* re.search(rf"(?:{name}|{NAME}).*?:(.*?)(?:{next}|{NEXT})" or "...$",
\*           text, re.DOTALL | re.IGNORECASE), then match.group(1).strip().
extract_section(text, section_name, next_section) ==
    LET H == {i \in 1..Len(text) : HeaderAt(text, i, section_name)}
        h == IF H = {} THEN 0 ELSE Min(H)
        c == IF h = 0 THEN 0 ELSE IndexOf(text, ":", h + Len(section_name))
        N == {k \in (c + 1)..Len(text) : HeaderAt(text, k, next_section)}
    IN  IF h = 0 \/ c = 0 THEN NoMatch
        ELSE IF next_section = NoSection
             THEN [hit |-> TRUE, text |-> Strip(SubSeq(text, c + 1, Len(text)))]
             ELSE IF N = {} THEN NoMatch
                  ELSE [hit |-> TRUE, text |-> Strip(SubSeq(text, c + 1, Min(N) - 1))]

\* The test `content is not None` in place of the truthiness test: an empty
\* section content counts as extracted.
Truthy_not_none(r) == r.hit

\* Python truthiness of the value returned by extract_section (None and '' are falsy).
Truthy(r) == r.hit /\ r.text # <<>>

(***************************************************************************)
(* complete_content_generator.py : extract_strengths_weaknesses            *)
(***************************************************************************)
\* default_items for section_name.lower() == "strengths" (lines 183-187).
default_items_strengths == <<
    [title |-> <<"Strong Ecosystem Integration">>,
     description |-> <<"The project effectively integrates with other blockchain protocols. This connectivity enhances its utility and user experience.">>],
    [title |-> <<"Active Development">>,
     description |-> <<"The project maintains an active development roadmap with regular updates. This ongoing development helps keep the technology relevant.">>],
    [title |-> <<"User-Focused Design">>,
     description |-> <<"The platform is designed with user experience as a priority. This user-centric approach helps drive adoption and retention.">>] >>

\* default_items of the else branch, weaknesses (lines 189-193).
default_items_weaknesses == <<
    [title |-> <<"Market Competition">>,
     description |-> <<"The project faces competition from other protocols in the same space. This competitive environment could limit growth potential.">>],
    [title |-> <<"Technical Complexity">>,
     description |-> <<"Some aspects of the system may be difficult for new users to understand. This learning curve could slow mainstream adoption.">>],
    [title |-> <<"Regulatory Uncertainty">>,
     description |-> <<"Like many blockchain projects, it operates in an evolving regulatory landscape. Future regulatory changes could impact operations.">>] >>

default_items(section_name) ==
    IF Len(section_name) = 1 /\ Lower(section_name[1]) = "strengths" THEN default_items_strengths
    ELSE default_items_weaknesses

\* The three entries of `patterns` (lines 202-209), in order.
patterns == <<"bold", "numbered", "dash">>

\* Index of the "**" that closes the title opened at i in the bold pattern,
\* ([^:]*?)\*\* : the first "**" after i with no ':' before it; 0 when none.
CloseIdx(s, i) ==
    LET p == IndexOf(s, "**", i + 1)
        c == IndexOf(s, ":", i + 1)
    IN  IF p = 0 \/ (c # 0 /\ c < p) THEN 0 ELSE p

\* Can a match of pattern `kind` start at index i of s?
MatchStarts(kind, s, i) ==
    CASE kind = "bold" -> s[i] = "**" /\ CloseIdx(s, i) # 0
      [] kind = "numbered" ->
            IsDigit(s[i]) /\ SkipDigits(s, i) <= Len(s) /\ s[SkipDigits(s, i)] = "."
      [] OTHER -> s[i] = "-"

\* The lookahead that ends a description at index q:
\* (?=\n\s*\*\*|$), (?=\n\s*\d+\.|$), (?=\n\s*-\s*|$); $ without re.MULTILINE.
Lookahead(kind, s, q) ==
    LET n == Len(s)
        k == SkipSpace(s, q + 1)
    IN  \/ q = n + 1
        \/ q = n /\ s[n] = "\n"
        \/ /\ q <= n /\ s[q] = "\n" /\ k <= n
           /\ CASE kind = "bold" -> s[k] = "**"
                [] kind = "numbered" ->
                      IsDigit(s[k]) /\ SkipDigits(s, k) <= n /\ s[SkipDigits(s, k)] = "."
                [] OTHER -> s[k] = "-"

\* Skip an optional token t at index i ((?:\*\*)? and :? are greedy).
SkipOpt(s, i, t) == IF i <= Len(s) /\ s[i] = t THEN i + 1 ELSE i

\* The two groups (title, desc) of the match of pattern `kind` starting at i,
\* and the index `stop` at which the match ends.
\* In the numbered and dash patterns the lazy group ([^:]*?) is followed only by
\* optional parts and by (.*?), which always reach a lookahead, so it matches
\* the empty string.
MatchGroups(kind, s, i, titleEnd, b, q) ==
    [title |-> IF kind = "bold" THEN SubSeq(s, i + 1, titleEnd - 1) ELSE <<>>,
     desc |-> SubSeq(s, b, q - 1),
     stop |-> q]

\* The description starts at b and ends at the first index where the lookahead holds.
MatchFromDesc(kind, s, i, titleEnd, b) ==
    MatchGroups(kind, s, i, titleEnd, b,
                Min({j \in b..(Len(s) + 1) : Lookahead(kind, s, j)}))

\* titleEnd is the index of the "**" closing the title (bold pattern only).
MatchFromTitle(kind, s, i, titleEnd) ==
    MatchFromDesc(kind, s, i, titleEnd,
        SkipSpace(s, SkipOpt(s,
            CASE kind = "bold" -> titleEnd + 1
              [] kind = "numbered" ->
                    SkipOpt(s, SkipOpt(s, SkipSpace(s, SkipDigits(s, i) + 1), "**"), "**")
              [] OTHER -> SkipOpt(s, SkipOpt(s, SkipSpace(s, i + 1), "**"), "**"),
            ":")))

MatchAt(kind, s, i) ==
    MatchFromTitle(kind, s, i, IF kind = "bold" THEN CloseIdx(s, i) ELSE 0)

\* re.findall(pattern, section_content, re.DOTALL) from index `from` on.
RECURSIVE FindAll(_, _, _)
\* The match m and the matches found after its end.
MatchThenRest(kind, s, m) ==
    <<[title |-> m.title, desc |-> m.desc]>> \o FindAll(kind, s, m.stop)

\* I is the set of the indices from `from` on at which a match can start.
FindFrom(kind, s, I) ==
    IF I = {} THEN <<>> ELSE MatchThenRest(kind, s, MatchAt(kind, s, Min(I)))

FindAll(kind, s, from) ==
    FindFrom(kind, s, {i \in from..Len(s) : MatchStarts(kind, s, i)})

\* Lines 212-216: the first pattern with any match supplies `items`.
RECURSIVE FirstMatching(_, _)
\* `items` is what re.findall returned for pattern k.
ItemsOrNext(s, k, items) ==
    IF items # <<>> THEN items ELSE FirstMatching(s, k + 1)

FirstMatching(s, k) ==
    IF k > Len(patterns) THEN <<>>
    ELSE ItemsOrNext(s, k, FindAll(patterns[k], s, 1))

\* Lines 219-227: keep the matches whose cleaned title and description are non-empty.
RECURSIVE ProcessItems(_)
ProcessItems(items) ==
    IF items = <<>> THEN <<>>
    ELSE LET title == Strip(RemoveToken(Head(items).title, "**"))
             desc == Strip(Head(items).desc)
         IN  (IF title # <<>> /\ desc # <<>>
              THEN <<[title |-> title, description |-> desc]>> ELSE <<>>)
             \o ProcessItems(Tail(items))

\* re.split(r'\n\s*\n', s): a separator starts at a "\n" and runs to the last
\* "\n" of the whitespace that follows it.
RECURSIVE SplitParagraphs(_)
SplitParagraphs(s) ==
    LET n == Len(s)
        lastNl(i) == Max({j \in i..(SkipSpace(s, i) - 1) : s[j] = "\n"})
        I == {i \in 1..n : s[i] = "\n" /\ lastNl(i) > i}
    IN  IF I = {} THEN <<s>>
        ELSE <<SubSeq(s, 1, Min(I) - 1)>>
             \o SplitParagraphs(SubSeq(s, lastNl(Min(I)) + 1, n))

\* re.split(r'(?<=[.!?])\s+', s): a separator is the whitespace that follows a '.'.
RECURSIVE SplitSentences(_)
SplitSentences(s) ==
    LET n == Len(s)
        I == {i \in 2..n : IsSpace(s[i]) /\ s[i - 1] \in {".", "!", "?"}}
    IN  IF I = {} THEN <<s>>
        ELSE <<SubSeq(s, 1, Min(I) - 1)>>
             \o SplitSentences(SubSeq(s, SkipSpace(s, Min(I)), n))

\* str.split(): the maximal runs of non-whitespace.
RECURSIVE SplitWords(_)
SplitWords(s) ==
    LET t == LStrip(s)
        I == {i \in 1..Len(t) : IsSpace(t[i])}
        e == IF I = {} THEN Len(t) + 1 ELSE Min(I)
    IN  IF t = <<>> THEN <<>>
        ELSE <<SubSeq(t, 1, e - 1)>> \o SplitWords(SubSeq(t, e, Len(t)))

\* Lines 241-258: the (title, desc) candidate of one paragraph; ok = FALSE is
\* the `continue` of line 258.
ParagraphCandidate(para) ==
    LET c == IndexOf(para, ":", 1)
        sentences == SplitSentences(para)
        words == SplitWords(para)
    IN  IF c # 0
        THEN [ok |-> TRUE,
              title |-> RemoveToken(Strip(SubSeq(para, 1, c - 1)), "**"),
              desc |-> Strip(SubSeq(para, c + 1, Len(para)))]
        ELSE IF Len(sentences) > 1
             THEN [ok |-> TRUE,
                   title |-> Strip(sentences[1]),
                   desc |-> Strip(JoinSpace(Tail(sentences)))]
             ELSE IF Len(words) > 4
                  THEN [ok |-> TRUE,
                        title |-> JoinSpace(SubSeq(words, 1, 3)),
                        desc |-> JoinSpace(SubSeq(words, 4, Len(words)))]
                  ELSE [ok |-> FALSE, title |-> <<>>, desc |-> <<>>]

\* Lines 232-267: the loop over the paragraphs, from paragraph k on.
RECURSIVE ParagraphLoop(_, _, _)
\* Lines 263-267 for the cleaned (title, description) of paragraph k.
AppendCandidate(paragraphs, k, result, ok, title, desc) ==
    IF /\ ok /\ title # <<>> /\ desc # <<>>
       /\ ~\E j \in 1..Len(result) : result[j].title = title
    THEN ParagraphLoop(paragraphs, k + 1,
                       Append(result, [title |-> title, description |-> desc]))
    ELSE ParagraphLoop(paragraphs, k + 1, result)

\* Lines 260-267 for paragraph k with cand its (title, desc) candidate.
WithCandidate(paragraphs, k, result, cand) ==
    AppendCandidate(paragraphs, k, result, cand.ok,
                    Strip(RemoveToken(cand.title, "**")), Strip(cand.desc))

ParagraphLoop(paragraphs, k, result) ==
    IF k > Len(paragraphs) \/ Len(result) >= 3 THEN result
    ELSE IF \E j \in 1..Len(result) : Contains(paragraphs[k], result[j].description)
         THEN ParagraphLoop(paragraphs, k + 1, result)
         ELSE WithCandidate(paragraphs, k, result, ParagraphCandidate(paragraphs[k]))

\* Lines 270-273: append defaults while fewer than 3, then result[:3].
PadAndLimit(result, defaults) ==
    LET padded == result \o SubSeq(defaults, 1, 3 - Len(result))
    IN  SubSeq(padded, 1, Min({3, Len(padded)}))

\* Lines 195-196: the section is extracted with no next_section.
section_content_of(text, section_name) == extract_section(text, section_name, NoSection)

\* Lines 229-273 with `result` the items kept from the pattern matches.
ItemsFrom(section_content, result, defaults) ==
    PadAndLimit(IF Len(result) < 3
                THEN ParagraphLoop(SplitParagraphs(section_content.text), 1, result)
                ELSE result,
                defaults)

\* Lines 197-273 with section_content the value extract_section returned.
ItemsOfContent(section_content, defaults) ==
    IF ~Truthy(section_content) THEN defaults
    ELSE ItemsFrom(section_content,
                   ProcessItems(FirstMatching(section_content.text, 1)), defaults)

extract_strengths_weaknesses(text, section_name) ==
    ItemsOfContent(section_content_of(text, section_name), default_items(section_name))

\* Lines 211-216: the patterns re.findall is called with, from pattern k on: the
\* loop ends after the first pattern with any match.
RECURSIVE PatternsTried(_, _)
PatternsTried(s, k) ==
    IF k > Len(patterns) THEN <<>>
    ELSE <<patterns[k]>>
         \o (IF FindAll(patterns[k], s, 1) # <<>> THEN <<>> ELSE PatternsTried(s, k + 1))

\* What lines 199-268 do for the section content found: the patterns tried, the
\* items kept from the matches (lines 219-227), whether the paragraph loop is
\* entered (line 230) and the number of items it appends.
ListTrace(section_content, result) ==
    IF ~Truthy(section_content)
    THEN [found |-> FALSE, tried |-> <<>>, from_patterns |-> <<>>,
          paragraphs_ran |-> FALSE, from_paragraphs |-> 0]
    ELSE [found |-> TRUE,
          tried |-> PatternsTried(section_content.text, 1),
          from_patterns |-> result,
          paragraphs_ran |-> Len(result) < 3,
          from_paragraphs |->
              IF Len(result) < 3
              THEN Len(ParagraphLoop(SplitParagraphs(section_content.text), 1, result))
                   - Len(result)
              ELSE 0]

(***************************************************************************)
(* complete_content_generator.py : DEFAULT_CONTENT, parse_text_to_sections *)
(***************************************************************************)
\* DEFAULT_CONTENT (lines 88-147); whitepaper.lastUpdated is datetime.now() at
\* import time, here the parameter lastUpdated.
DefaultContentValue(lastUpdated) ==
    [ valueGeneration |->
        [description |-> <<"This project generates value by providing a valuable service in the cryptocurrency ecosystem. Users benefit from its utility while token holders receive a portion of the fees generated.">>,
         title |-> <<"Value Generation">>,
         heading |-> <<"How ", "{symbol}", " Generates Value">>,
         readTime |-> 3,
         dificultyTag |-> <<"Beginner friendly">>],
      marketPosition |->
        [description |-> <<"The project is known for innovation in its sector. It addresses key challenges and offers unique solutions that differentiate it from competitors in the blockchain space.">>,
         title |-> <<"Market Position">>,
         heading |-> <<"What is ", "{symbol}", " Best Known For">>,
         readTime |-> 3,
         dificultyTag |-> <<"Beginner friendly">>],
      projectSize |->
        [description |-> <<"This project has established itself as a notable player in the cryptocurrency ecosystem. It has gained recognition for its technology and utility.">>,
         title |-> <<"Project Size">>,
         heading |-> <<"How Significant is ", "{symbol}", " in the Crypto Space">>,
         readTime |-> 3,
         dificultyTag |-> <<"Beginner friendly">>],
      RealWorldImpact |->
        [description |-> <<"The project has applications across various geographic regions and industries. It provides solutions to real-world problems and has influenced the broader blockchain ecosystem.">>,
         title |-> <<"Real World Impact">>,
         heading |-> <<"Where Does ", "{symbol}", " Have Influence">>,
         readTime |-> 3,
         dificultyTag |-> <<"Beginner friendly">>],
      founders |->
        [description |-> <<"The project was created by a team of blockchain experts with backgrounds in technology and finance. They launched the project with a vision to address key challenges in the sector.">>,
         title |-> <<"Founders">>,
         heading |-> <<"Who Created ", "{symbol}">>,
         readTime |-> 3,
         dificultyTag |-> <<"Beginner friendly">>],
      problemSolving |->
        [description |-> <<"This project solves fundamental challenges in the blockchain space by providing innovative solutions. Its approach addresses inefficiencies and creates new opportunities for users.">>,
         title |-> <<"Problem Solving">>,
         heading |-> <<"What challenges does ", "{symbol}", " solve?">>,
         readTime |-> 3,
         dificultyTag |-> <<"Beginner friendly">>],
      strengths |-> <<
        [title |-> <<"Technical Innovation">>,
         description |-> <<"The project utilizes cutting-edge technology to deliver its services. This technical foundation provides a competitive advantage in the market.">>],
        [title |-> <<"Strong Community">>,
         description |-> <<"The project has built a dedicated user base that supports its development. This community engagement helps drive adoption and improvement.">>],
        [title |-> <<"Practical Utility">>,
         description |-> <<"The project offers real-world applications that solve tangible problems. This utility creates sustainable demand for its services.">>] >>,
      weaknesses |-> <<
        [title |-> <<"Market Competition">>,
         description |-> <<"The project faces competition from established players in the space. This competitive landscape could impact its growth potential.">>],
        [title |-> <<"Technical Complexity">>,
         description |-> <<"Some aspects of the project may be difficult for beginners to understand. This complexity could limit mainstream adoption.">>],
        [title |-> <<"Regulatory Considerations">>,
         description |-> <<"The project operates in an evolving regulatory environment. Changes in regulations could affect its operations in certain regions.">>] >>,
      whitepaper |->
        [summary |-> <<"The project provides a blockchain-based solution that addresses key challenges in its sector. It utilizes innovative technology to create value for users and token holders while maintaining security and efficiency.">>,
         lastUpdated |-> lastUpdated,
         readTime |-> 5,
         dificultyTag |-> <<"Intermediate">>] ]


\* The keys of a content record whose value is a dict with a 'heading'.
NarrativeKeys ==
    {"valueGeneration", "marketPosition", "projectSize", "RealWorldImpact",
     "founders", "problemSolving"}

\* heading.format(symbol=symbol.upper()): the placeholder becomes the upper-cased
\* symbol; a heading without placeholder is returned as it is.
FormatHeading(heading, symbol) ==
    [i \in 1..Len(heading) |->
        IF heading[i] = "{symbol}" THEN Upper(symbol) ELSE heading[i]]

\* Lines 294-296 (and 542-544): format the heading of every section of `content`.
FormatHeadings(content, symbol) ==
    [k \in DOMAIN content |->
        IF k \in NarrativeKeys
        THEN [content[k] EXCEPT !.heading = FormatHeading(@, symbol)]
        ELSE content[k]]

\* The value of the module-level default after code has written `written`
\* through a copy.deepcopy of it: the copy shares nothing with the global.
GlobalAfterDeepCopy(global, written) == global

\* The `sections` table of parse_text_to_sections (lines 278-288) with the key
\* each section_name is mapped to (lines 304-317).
sections == <<
    [name |-> ValueGeneration, next |-> MarketPosition, key |-> "valueGeneration"],
    [name |-> MarketPosition, next |-> ProjectSize, key |-> "marketPosition"],
    [name |-> ProjectSize, next |-> RealWorldImpact, key |-> "projectSize"],
    [name |-> RealWorldImpact, next |-> Founders, key |-> "RealWorldImpact"],
    [name |-> Founders, next |-> ProblemSolving, key |-> "founders"],
    [name |-> ProblemSolving, next |-> Strengths, key |-> "problemSolving"],
    [name |-> Strengths, next |-> Weaknesses, key |-> "none"],
    [name |-> Weaknesses, next |-> WhitepaperSummary, key |-> "none"],
    [name |-> WhitepaperSummary, next |-> NoSection, key |-> "whitepaper"] >>

\* The loop over `sections` writing the extracted content to the title of the
\* section as well as to its description.
RECURSIVE FillSections_title_too(_, _, _)
FillSections_title_too(result, text, k) ==
    IF k > Len(sections) THEN result
    ELSE LET content == extract_section(text, sections[k].name, sections[k].next)
             key == sections[k].key
         IN  IF Truthy(content) /\ key \in NarrativeKeys
             THEN FillSections_title_too(
                      [result EXCEPT ![key].description = content.text,
                                     ![key].title = content.text],
                      text, k + 1)
             ELSE IF Truthy(content) /\ key = "whitepaper"
                  THEN FillSections_title_too(
                           [result EXCEPT !.whitepaper.summary = content.text], text, k + 1)
                  ELSE FillSections_title_too(result, text, k + 1)

\* Lines 299-317: the loop over `sections`, from entry k on.
RECURSIVE FillSections(_, _, _)
FillSections(result, text, k) ==
    IF k > Len(sections) THEN result
    ELSE LET content == extract_section(text, sections[k].name, sections[k].next)
             key == sections[k].key
         IN  IF Truthy(content) /\ key \in NarrativeKeys
             THEN FillSections([result EXCEPT ![key].description = content.text],
                               text, k + 1)
             ELSE IF Truthy(content) /\ key = "whitepaper"
                  THEN FillSections([result EXCEPT !.whitepaper.summary = content.text],
                                    text, k + 1)
                  ELSE FillSections(result, text, k + 1)

\* parse_text_to_sections(text, symbol) with DEFAULT_CONTENT = D.
parse_text_to_sections(D, text, symbol) ==
    LET result == FillSections(FormatHeadings(D, symbol), text, 1)
    IN  [result EXCEPT !.strengths = extract_strengths_weaknesses(text, Strengths),
                       !.weaknesses = extract_strengths_weaknesses(text, Weaknesses)]

(***************************************************************************)
(* complete_content_generator.py : create_project_json                     *)
(***************************************************************************)
ScoreKeys == {"growth", "earning", "fairValue", "safety"}

StatKeys == {"marketCap", "tradingVolume", "circulatingSupply", "totalSupply"}

\* A dict with no key ({}).
EmptyDict == [k \in {} |-> 0]

\* An absent argument (None).
None == [isNone |-> TRUE, val |-> EmptyDict]

Some(v) == [isNone |-> FALSE, val |-> v]

\* `scores.get(key) or default` in place of scores.get(key, default): a supplied
\* score of 0 is replaced by the default.
ScoreOrDefault_falsy(scores, key, default) ==
    IF ~scores.isNone /\ DOMAIN scores.val # {} /\ key \in DOMAIN scores.val
       /\ scores.val[key] # 0
    THEN scores.val[key] ELSE default

\* scores.get(key, default) if scores else default
ScoreOrDefault(scores, key, default) ==
    IF ~scores.isNone /\ DOMAIN scores.val # {} /\ key \in DOMAIN scores.val
    THEN scores.val[key] ELSE default

\* cmc_data.get(symbol, {}) if cmc_data else {}   (line 368)
market_data_complete(cmc_data, symbol) ==
    IF ~cmc_data.isNone /\ DOMAIN cmc_data.val # {} /\ symbol \in DOMAIN cmc_data.val
    THEN cmc_data.val[symbol] ELSE EmptyDict

\* {**section, "keyStats": market_data}
WithKeyStats(section, market_data) ==
    [f \in DOMAIN section \cup {"keyStats"} |->
        IF f = "keyStats" THEN market_data ELSE section[f]]

\* The benchmarkScores object of create_project_json (lines 398-409).
benchmarkScores_complete(g, e, f, s) ==
    [growth |-> g, earning |-> e, fairValue |-> f, safety |-> s,
     barData |-> <<[label |-> "User Growth", value |-> g, color |-> "#4CAF50"],
                   [label |-> "Earnings Quality", value |-> e, color |-> "#2196F3"],
                   [label |-> "Fair Value", value |-> f, color |-> "#FFC107"],
                   [label |-> "Safety Score", value |-> s, color |-> "#9C27B0"]>>]

\* The keys create_project_json reads with content[...]; a missing key raises KeyError.
ContentKeys == NarrativeKeys \cup {"strengths", "weaknesses", "whitepaper"}

\* create_project_json(content, symbol, name, cmc_data, scores).  The f-string
\* fields title, logo and marketBenchmarkScores (functions of name and symbol)
\* and description (name and the first 50 characters of the market position
\* description, read with .get) are left out.
create_project_json(content, symbol, name, cmc_data, scores) ==
    IF ~(ContentKeys \subseteq DOMAIN content)
    THEN [raised |-> TRUE, project |-> EmptyDict]
    ELSE [raised |-> FALSE,
          project |->
            [id |-> "placeholder-project-id",
             coinId |-> "placeholder-coin-id",
             name |-> name,
             assetOverview |->
                [valueGeneration |-> content.valueGeneration,
                 marketPosition |-> content.marketPosition,
                 projectSize |-> WithKeyStats(content.projectSize,
                                              market_data_complete(cmc_data, symbol)),
                 RealWorldImpact |-> content.RealWorldImpact],
             projectNarrative |->
                [founders |-> content.founders,
                 problemSolving |-> content.problemSolving],
             researchAnalysis |->
                [strengths |-> content.strengths,
                 weaknesses |-> content.weaknesses],
             benchmarkScores |->
                benchmarkScores_complete(ScoreOrDefault(scores, "growth", 50),
                                         ScoreOrDefault(scores, "earning", 50),
                                         ScoreOrDefault(scores, "fairValue", 50),
                                         ScoreOrDefault(scores, "safety", 50)),
             whitepaper |-> content.whitepaper]]

(***************************************************************************)
(* json.loads on token sequences.  Structural tokens are the characters    *)
(*   {  }  [  ]  ,  :  "  \  space  newline  digits  -  .                  *)
(* and every other token is an ordinary character.  Parsed values are      *)
(*   <<"obj", f>>  f a function from keys (token sequences) to values,     *)
(*   <<"arr", q>>  q a sequence of values,                                 *)
(*   <<"str", q>>  q the decoded characters,                               *)
(*   <<"num", q>>  q the literal of the number.                            *)
(* A dict keeps the last value of a repeated key, and dict equality does   *)
(* not depend on the order of the keys, as for functions.                  *)
(***************************************************************************)
QUOTE == "\""

BACKSLASH == "\\"

\* The value Python's None, returned by the extractors on every failure.
PyNone == <<"None">>

ParseFail == [ok |-> FALSE, val |-> PyNone, pos |-> 0]

\* py_scanstring from the index after the opening quote (strict mode: a raw
\* newline is an invalid control character; only \" \\ \/ are escapes over the
\* model's alphabet).
RECURSIVE ScanString(_, _, _)
ScanString(s, j, acc) ==
    IF j > Len(s) THEN ParseFail
    ELSE IF s[j] = QUOTE THEN [ok |-> TRUE, val |-> <<"str", acc>>, pos |-> j + 1]
    ELSE IF s[j] = "\n" THEN ParseFail
    ELSE IF s[j] = BACKSLASH
         THEN IF j + 1 <= Len(s) /\ s[j + 1] \in {QUOTE, BACKSLASH, "/"}
              THEN ScanString(s, j + 2, Append(acc, s[j + 1]))
              ELSE ParseFail
         ELSE ScanString(s, j + 1, Append(acc, s[j]))

\* NUMBER_RE: -?digits(.digits)?  (the alphabet has no 0 and no exponent).
ScanNumber(s, i) ==
    LET d == IF s[i] = "-" THEN i + 1 ELSE i
        e == SkipDigits(s, d)
        f == IF e + 1 <= Len(s) /\ s[e] = "." /\ IsDigit(s[e + 1])
             THEN SkipDigits(s, e + 1) ELSE e
    IN  IF d > Len(s) \/ ~IsDigit(s[d]) THEN ParseFail
        ELSE [ok |-> TRUE, val |-> <<"num", SubSeq(s, i, f - 1)>>, pos |-> f]

\* dict with key k set to v.
DictSet(f, k, v) == [x \in DOMAIN f \cup {k} |-> IF x = k THEN v ELSE f[x]]

RECURSIVE ParseValue(_, _)
RECURSIVE ParseMembers(_, _, _)
RECURSIVE ParseElements(_, _, _)

\* JSONObject after the key's opening quote at index i - 1: "key" : value, then
\* '}' or ',' and the next key.
ParseMembers(s, i, acc) ==
    LET key == ScanString(s, i, <<>>)
        c == SkipSpace(s, key.pos)
        v == ParseValue(s, SkipSpace(s, c + 1))
        e == SkipSpace(s, v.pos)
        n == SkipSpace(s, e + 1)
    IN  IF ~key.ok \/ c > Len(s) \/ s[c] # ":" THEN ParseFail
        ELSE IF ~v.ok \/ e > Len(s) THEN ParseFail
        ELSE IF s[e] = "}"
             THEN [ok |-> TRUE, val |-> <<"obj", DictSet(acc, key.val[2], v.val)>>,
                   pos |-> e + 1]
        ELSE IF s[e] = "," /\ n <= Len(s) /\ s[n] = QUOTE
             THEN ParseMembers(s, n + 1, DictSet(acc, key.val[2], v.val))
             ELSE ParseFail

\* JSONArray from the first element at index i: value, then ']' or ',' value.
ParseElements(s, i, acc) ==
    LET v == ParseValue(s, i)
        e == SkipSpace(s, v.pos)
    IN  IF ~v.ok \/ e > Len(s) THEN ParseFail
        ELSE IF s[e] = "]"
             THEN [ok |-> TRUE, val |-> <<"arr", Append(acc, v.val)>>, pos |-> e + 1]
        ELSE IF s[e] = ","
             THEN ParseElements(s, SkipSpace(s, e + 1), Append(acc, v.val))
             ELSE ParseFail

\* scan_once at index i.
ParseValue(s, i) ==
    IF i > Len(s) THEN ParseFail
    ELSE IF s[i] = QUOTE THEN ScanString(s, i + 1, <<>>)
    ELSE IF s[i] = "{"
         THEN LET k == SkipSpace(s, i + 1)
              IN  IF k > Len(s) THEN ParseFail
                  ELSE IF s[k] = "}"
                       THEN [ok |-> TRUE, val |-> <<"obj", EmptyDict>>, pos |-> k + 1]
                  ELSE IF s[k] = QUOTE THEN ParseMembers(s, k + 1, EmptyDict)
                  ELSE ParseFail
    ELSE IF s[i] = "["
         THEN LET k == SkipSpace(s, i + 1)
              IN  IF k > Len(s) THEN ParseFail
                  ELSE IF s[k] = "]"
                       THEN [ok |-> TRUE, val |-> <<"arr", <<>>>>, pos |-> k + 1]
                  ELSE ParseElements(s, k, <<>>)
    ELSE IF s[i] = "-" \/ IsDigit(s[i]) THEN ScanNumber(s, i)
    ELSE ParseFail

\* The end of json.loads: v is the value scanned at the start of s; characters
\* other than blanks after it are "Extra data".
WholeText(s, v) ==
    IF v.ok /\ SkipSpace(s, v.pos) = Len(s) + 1
    THEN [ok |-> TRUE, val |-> v.val]
    ELSE [ok |-> FALSE, val |-> PyNone]

\* json.loads(s): ok = FALSE stands for json.JSONDecodeError.
json_loads(s) == WholeText(s, ParseValue(s, SkipSpace(s, 1)))

(***************************************************************************)
(* extract_json_from_response (final_json_generator.py, statica.py,        *)
(* gemini_content_generator.py)                                            *)
(***************************************************************************)
\* The code-fence marker, three backquotes (a backquote cannot be written in a
\* TLA+ string).
FENCE == "<fence>"

\* re.sub(r'<fence>json\n|<fence>', '', response)
RECURSIVE StripFences(_)
StripFences(s) ==
    IF s = <<>> THEN <<>>
    ELSE IF Len(s) >= 3 /\ s[1] = FENCE /\ s[2] = "json" /\ s[3] = "\n"
         THEN StripFences(SubSeq(s, 4, Len(s)))
    ELSE IF s[1] = FENCE THEN StripFences(Tail(s))
    ELSE <<Head(s)>> \o StripFences(Tail(s))

\* re.search(r'\{[\s\S]*?\}', response): from the first '{' to the first '}'
\* after it; found = FALSE when there is no match.
LocateSpan(s) ==
    LET o == IndexOf(s, "{", 1)
        c == IF o = 0 THEN 0 ELSE IndexOf(s, "}", o + 1)
    IN  IF c = 0 THEN [found |-> FALSE, span |-> <<>>]
        ELSE [found |-> TRUE, span |-> SubSeq(s, o, c)]

\* re.sub(',\s*<closer>', '<closer>', s) for the closers in C: a comma whose
\* next non-blank character is a closer is removed with the blanks.
RECURSIVE RemoveTrailingCommas(_, _)
RemoveTrailingCommas(s, C) ==
    LET k == SkipSpace(s, 2)
    IN  IF s = <<>> THEN <<>>
        ELSE IF s[1] = "," /\ k <= Len(s) /\ s[k] \in C
             THEN <<s[k]>> \o RemoveTrailingCommas(SubSeq(s, k + 1, Len(s)), C)
             ELSE <<Head(s)>> \o RemoveTrailingCommas(Tail(s), C)

\* re.sub(r'\\([\'"])', r'\1', s): a backslash before a quote is removed.
RECURSIVE RemoveEscapes(_)
RemoveEscapes(s) ==
    IF s = <<>> THEN <<>>
    ELSE IF Len(s) >= 2 /\ s[1] = BACKSLASH /\ s[2] \in {QUOTE, "'"}
         THEN <<s[2]>> \o RemoveEscapes(SubSeq(s, 3, Len(s)))
         ELSE <<Head(s)>> \o RemoveEscapes(Tail(s))

\* final_json_generator.py lines 149-150.
Repair_final(json_str) == RemoveEscapes(RemoveTrailingCommas(json_str, {"]", "}"}))

\* statica.py lines 140-141 and gemini_content_generator.py lines 144-145.
Repair_statica(json_str) ==
    RemoveTrailingCommas(RemoveTrailingCommas(json_str, {"}"}), {"]"})

\* `return json.loads(json_str)` under `except json.JSONDecodeError: return None`.
ResultOrNone(parsed) == IF parsed.ok THEN parsed.val ELSE PyNone

\* final_json_generator.py lines 142-156: first is the outcome of the first
\* json.loads(json_str); after a failure the repaired text is parsed.
ParseThenRepair_final(first, json_str) ==
    IF first.ok THEN first.val ELSE ResultOrNone(json_loads(Repair_final(json_str)))

\* final_json_generator.py lines 141-160, m the outcome of re.search.
FromSpan_final(m) ==
    IF ~m.found THEN PyNone ELSE ParseThenRepair_final(json_loads(m.span), m.span)

\* final_json_generator.py : extract_json_from_response(response)
extract_json_from_response_final(response) ==
    FromSpan_final(LocateSpan(StripFences(Strip(response))))

\* statica.py lines 136-149, m the outcome of re.search.
FromSpan_statica(m) ==
    IF ~m.found THEN PyNone ELSE ResultOrNone(json_loads(Repair_statica(m.span)))

\* statica.py : extract_json_from_response(response)
extract_json_from_response_statica(response) ==
    FromSpan_statica(LocateSpan(StripFences(Strip(response))))

\* gemini_content_generator.py : extract_json_from_response(response), the same
\* statements as in statica.py.
extract_json_from_response_gemini(response) == extract_json_from_response_statica(response)

\* The arguments json.loads is called with, in order, by extract_json_from_response
\* of final_json_generator.py (lines 144 and 152), m the outcome of re.search.
LoadsCalls_final(m) ==
    IF ~m.found THEN <<>>
    ELSE IF json_loads(m.span).ok THEN <<m.span>>
    ELSE <<m.span, Repair_final(m.span)>>

loads_calls_final(response) == LoadsCalls_final(LocateSpan(StripFences(Strip(response))))

\* The arguments json.loads is called with by extract_json_from_response of
\* statica.py (line 142) and gemini_content_generator.py (line 146).
LoadsCalls_statica(m) == IF ~m.found THEN <<>> ELSE <<Repair_statica(m.span)>>

loads_calls_statica(response) == LoadsCalls_statica(LocateSpan(StripFences(Strip(response))))

\* The except clauses with the statica.py try block caught KeyError only.
ExceptClauses_key_error ==
    [final |-> [first |-> {"JSONDecodeError"}, retry |-> {"JSONDecodeError"},
                outer |-> {"Exception"}],
     statica |-> [outer |-> {"KeyError"}],
     gemini |-> [outer |-> {"JSONDecodeError", "Exception"}]]

\* The exception classes named by the except clauses of extract_json_from_response:
\* final_json_generator.py lines 146 (first parse), 153 (retry) and 162 (function
\* body); statica.py lines 146 and 150; gemini_content_generator.py lines 150
\* and 154.
ExceptClauses ==
    [final |-> [first |-> {"JSONDecodeError"}, retry |-> {"JSONDecodeError"},
                outer |-> {"Exception"}],
     statica |-> [outer |-> {"JSONDecodeError", "Exception"}],
     gemini |-> [outer |-> {"JSONDecodeError", "Exception"}]]

\* An except clause naming `classes` catches exc (every exception of the model
\* is a subclass of Exception).
Catches(classes, exc) == exc \in classes \/ "Exception" \in classes

\* An exception leaves extract_json_from_response of module `variant`, m the
\* outcome of re.search: the JSONDecodeError of a json.loads call that no
\* enclosing except clause catches.
extract_raises(variant, m) ==
    /\ m.found
    /\ IF variant = "final"
       THEN /\ ~json_loads(m.span).ok
            /\ ~Catches(ExceptClauses.final.outer, "JSONDecodeError")
            /\ \/ ~Catches(ExceptClauses.final.first, "JSONDecodeError")
               \/ /\ ~json_loads(Repair_final(m.span)).ok
                  /\ ~Catches(ExceptClauses.final.retry, "JSONDecodeError")
       ELSE /\ ~json_loads(Repair_statica(m.span)).ok
            /\ ~Catches(ExceptClauses[variant].outer, "JSONDecodeError")

\* The span json_match.group(0) of a response; <<>> when the search fails.
span_of(response) == LocateSpan(StripFences(Strip(response))).span

(***************************************************************************)
(* The JSON-mode generators: statica.py generate_hf_content and            *)
(* generate_project_json, final_json_generator.py and                      *)
(* gemini_content_generator.py generate_gemini_content.                    *)
(***************************************************************************)
\* statica.py: DEFAULT_HF_CONTENT (lines 116-126).
DEFAULT_HF_CONTENT_statica ==
    [ valueGeneration |->
        [description |-> <<"N/A">>,
         title |-> <<"Value Generation">>,
         heading |-> <<"How ", "{symbol}", " Generates Value">>,
         readTime |-> 3,
         dificultyTag |-> <<"Beginner friendly">>],
      marketPosition |->
        [description |-> <<"N/A">>,
         title |-> <<"Market Position">>,
         heading |-> <<"What is ", "{symbol}", " Best Known For">>,
         readTime |-> 3,
         dificultyTag |-> <<"Beginner friendly">>],
      projectSize |->
        [description |-> <<"N/A">>,
         title |-> <<"Project Size">>,
         heading |-> <<"How Significant is ", "{symbol}", " in the Crypto Space">>,
         readTime |-> 3,
         dificultyTag |-> <<"Beginner friendly">>],
      RealWorldImpact |->
        [description |-> <<"N/A">>,
         title |-> <<"Real World Impact">>,
         heading |-> <<"Where Does ", "{symbol}", " Have Influence">>,
         readTime |-> 3,
         dificultyTag |-> <<"Beginner friendly">>],
      founders |->
        [description |-> <<"N/A">>,
         title |-> <<"Founders">>,
         heading |-> <<"Who Created ", "{symbol}">>,
         readTime |-> 3,
         dificultyTag |-> <<"Beginner friendly">>],
      problemSolving |->
        [description |-> <<"N/A">>,
         title |-> <<"Problem Solving">>,
         heading |-> <<"What challenges does ", "{symbol}", " solve?">>,
         readTime |-> 3,
         dificultyTag |-> <<"Beginner friendly">>],
      strengths |-> <<>>,
      weaknesses |-> <<>>,
      whitepaper |->
        [summary |-> <<"N/A">>,
         lastUpdated |-> <<"2024-01-01">>,
         readTime |-> 5,
         dificultyTag |-> <<"Intermediate">>] ]

\* final_json_generator.py: DEFAULT_HF_CONTENT (lines 120-130).
DEFAULT_HF_CONTENT_final ==
    [ valueGeneration |->
        [description |-> <<"N/A">>,
         title |-> <<"Value Generation">>,
         heading |-> <<"How ", "{symbol}", " Generates Value">>,
         readTime |-> 3,
         dificultyTag |-> <<"Beginner friendly">>],
      marketPosition |->
        [description |-> <<"N/A">>,
         title |-> <<"Market Position">>,
         heading |-> <<"What is ", "{symbol}", " Best Known For">>,
         readTime |-> 3,
         dificultyTag |-> <<"Beginner friendly">>],
      projectSize |->
        [description |-> <<"N/A">>,
         title |-> <<"Project Size">>,
         heading |-> <<"How Significant is ", "{symbol}", " in the Crypto Space">>,
         readTime |-> 3,
         dificultyTag |-> <<"Beginner friendly">>],
      RealWorldImpact |->
        [description |-> <<"N/A">>,
         title |-> <<"Real World Impact">>,
         heading |-> <<"Where Does ", "{symbol}", " Have Influence">>,
         readTime |-> 3,
         dificultyTag |-> <<"Beginner friendly">>],
      founders |->
        [description |-> <<"N/A">>,
         title |-> <<"Founders">>,
         heading |-> <<"Who Created ", "{symbol}">>,
         readTime |-> 3,
         dificultyTag |-> <<"Beginner friendly">>],
      problemSolving |->
        [description |-> <<"N/A">>,
         title |-> <<"Problem Solving">>,
         heading |-> <<"What challenges does ", "{symbol}", " solve?">>,
         readTime |-> 3,
         dificultyTag |-> <<"Beginner friendly">>],
      strengths |-> <<>>,
      weaknesses |-> <<>>,
      whitepaper |->
        [summary |-> <<"N/A">>,
         title |-> <<"Whitepaper Summary">>,
         lastUpdated |-> <<"2024-01-01">>,
         readTime |-> 5,
         dificultyTag |-> <<"Intermediate">>] ]

\* gemini_content_generator.py: DEFAULT_HF_CONTENT (lines 120-130).
DEFAULT_HF_CONTENT_gemini ==
    [ valueGeneration |->
        [description |-> <<"N/A">>,
         title |-> <<"Value Generation">>,
         heading |-> <<"How ", "{symbol}", " Generates Value">>,
         readTime |-> 3,
         dificultyTag |-> <<"Beginner friendly">>],
      marketPosition |->
        [description |-> <<"N/A">>,
         title |-> <<"Market Position">>,
         heading |-> <<"What is ", "{symbol}", " Best Known For">>,
         readTime |-> 3,
         dificultyTag |-> <<"Beginner friendly">>],
      projectSize |->
        [description |-> <<"N/A">>,
         title |-> <<"Market Position">>,
         heading |-> <<"What is ", "{symbol}", " Best Known For">>,
         readTime |-> 3,
         dificultyTag |-> <<"Beginner friendly">>],
      RealWorldImpact |->
        [description |-> <<"N/A">>,
         title |-> <<"Real World Impact">>,
         heading |-> <<"Where Does ", "{symbol}", " Have Influence">>,
         readTime |-> 3,
         dificultyTag |-> <<"Beginner friendly">>],
      founders |->
        [description |-> <<"N/A">>,
         title |-> <<"Founders">>,
         heading |-> <<"Who Created ", "{symbol}">>,
         readTime |-> 3,
         dificultyTag |-> <<"Beginner friendly">>],
      problemSolving |->
        [description |-> <<"N/A">>,
         title |-> <<"Problem Solving">>,
         heading |-> <<"What challenges does ", "{symbol}", " solve?">>,
         readTime |-> 3,
         dificultyTag |-> <<"Beginner friendly">>],
      strengths |-> <<>>,
      weaknesses |-> <<>>,
      whitepaper |->
        [summary |-> <<"N/A">>,
         title |-> <<"Whitepaper Summary">>,
         readTime |-> 5,
         dificultyTag |-> <<"Intermediate">>] ]

\* The keyword arguments every generator passes to <PROMPT>.format(...).
FormatKwargs == {"name", "symbol", "sector", "description"}

\* The replacement fields str.format meets in GEMINI_PROMPT of
\* complete_content_generator.py (lines 44-85).
GEMINI_PROMPT_fields_complete == {"name", "symbol", "sector", "description"}

\* The replacement fields str.format meets in HF_PROMPT of statica.py (lines
\* 37-113) and in GEMINI_PROMPT of final_json_generator.py and
\* gemini_content_generator.py (lines 42-117): the four named fields and then the
\* unescaped '{' that opens the JSON example of the template, whose field name
\* is the text up to the next ':'.
HF_PROMPT_fields == {"name", "symbol", "sector", "description", "\n  \"valueGeneration\""}

\* <PROMPT>.format(name=..., symbol=..., sector=..., description=...) raises
\* KeyError when the template has a replacement field that is no keyword argument.
FormatRaises(fields) == ~(fields \subseteq FormatKwargs)

\* The default after the same writes through a reference to it (no copy).
GlobalAfterItemCopy_aliased(global, written) == written

\* The value of the module-level default after code has written `written`
\* through {k: v.copy() for k, v in DEFAULT_HF_CONTENT.items()} (statica.py lines
\* 189, 196): the section dicts are copies, the written heading belongs to the copy.
GlobalAfterItemCopy(global, written) == global

\* The value of the module-level default after code has written `written`
\* through DEFAULT_HF_CONTENT.copy() (final_json_generator.py line 192): the copy
\* shares the section dicts with the global, so the headings written through it
\* are written to the global.
GlobalAfterShallowCopy(global, written) == written

\* Python truthiness of the value returned by extract_json_from_response
\* (None and {} are falsy).
JsonTruthy(v) == v # PyNone /\ ~(v[1] = "obj" /\ DOMAIN v[2] = {})

\* The members of the parsed JSON object `content` under a narrative key.
JsonSections(content) ==
    {k \in DOMAIN content[2] : \E key \in NarrativeKeys : k = <<key>>}

\* `'heading' in v` for a parsed JSON value v: key of a dict, part of a str,
\* element of a list.
HasHeading(v) ==
    CASE v[1] = "obj" -> <<"heading">> \in DOMAIN v[2]
      [] v[1] = "str" -> Contains(v[2], <<"heading">>)
      [] v[1] = "arr" -> \E i \in 1..Len(v[2]) : v[2][i] = <<"str", <<"heading">>>>
      [] OTHER -> FALSE

\* The characters of a text in which the placeholder may be the one token
\* "{symbol}": the token stands for the three tokens "{", "symbol", "}".
RECURSIVE Characters(_)
Characters(q) ==
    IF q = <<>> THEN <<>>
    ELSE (IF Head(q) = "{symbol}" THEN <<"{", "symbol", "}">> ELSE <<Head(q)>>)
         \o Characters(Tail(q))

(***************************************************************************)
(* str.format(symbol=...) (statica.py line 185, final_json_generator.py    *)
(* line 188), as Python 3 computes it: literal text with the escaped       *)
(* braces "{{" and "}}", and replacement fields                            *)
(*     "{" name ("[" index "]")* ["!" conversion] [":" spec] "}"           *)
(* whose spec may hold replacement fields of its own, one level deep.      *)
(* The only argument is the keyword `symbol`, a str: any other name        *)
(* (KeyError), the empty name or a number (IndexError), an attribute (the  *)
(* words of the alphabet name no attribute of str: AttributeError), an     *)
(* index that is no number (TypeError) or is out of range (IndexError), a  *)
(* conversion other than s, r, a, and a spec str does not take             *)
(* (ValueError) raise.                                                     *)
(***************************************************************************)
\* The tokens of one character (the fill of a spec is one character).
Character ==
    { " ", "!", "#", "$", "%", "&", "'", "(", ")", "*", "+", ",", "-", ".", "/",
      "0", "1", "2", "3", "4", "5", "6", "7", "8", "9", ":", ";", "<", "=", ">",
      "?", "@", "[", "]", "^", "_", "{", "|", "}", "~", "\\", "\"", "\n",
      "a", "b", "c", "d", "e", "f", "g", "h", "i", "j", "k", "l", "m", "n", "o",
      "p", "q", "r", "s", "t", "u", "v", "w", "x", "y", "z",
      "A", "B", "C", "D", "E", "F", "G", "H", "I", "J", "K", "L", "M", "N", "O",
      "P", "Q", "R", "S", "T", "U", "V", "W", "X", "Y", "Z" }

DecimalDigit ==
    ("0" :> 0) @@ ("1" :> 1) @@ ("2" :> 2) @@ ("3" :> 3) @@ ("4" :> 4)
    @@ ("5" :> 5) @@ ("6" :> 6) @@ ("7" :> 7) @@ ("8" :> 8) @@ ("9" :> 9)

\* The characters of the symbols in upper case.
Spelling ==
    ("BTC" :> <<"B", "T", "C">>) @@ ("ETH" :> <<"E", "T", "H">>)
    @@ ("SOL" :> <<"S", "O", "L">>) @@ ("APTOS" :> <<"A", "P", "T", "O", "S">>)
    @@ ("" :> <<>>)

\* The characters of a text made of symbols and characters.
RECURSIVE Spell(_)
Spell(text) ==
    IF text = <<>> THEN <<>>
    ELSE (IF Head(text) \in DOMAIN Spelling THEN Spelling[Head(text)] ELSE <<Head(text)>>)
         \o Spell(Tail(text))

\* The number written by the decimal digits ds; 0 for none.
RECURSIVE ToInt(_)
ToInt(ds) ==
    IF ds = <<>> THEN 0
    ELSE 10 * ToInt(SubSeq(ds, 1, Len(ds) - 1)) + DecimalDigit[ds[Len(ds)]]

\* First index >= from whose token is no decimal digit; Len(s)+1 when none.
DigitsEnd(s, from) ==
    LET I == {i \in from..Len(s) : s[i] \notin DOMAIN DecimalDigit}
    IN  IF I = {} THEN Len(s) + 1 ELSE Min(I)

FormatError == [ok |-> FALSE, val |-> <<>>]

\* The index of the "}", ":" or "!" that ends the field name starting at j, the
\* text between "[" and "]" being skipped; 0 when the name holds a "{" or the
\* text ends first (ValueError).
RECURSIVE NameEnd(_, _)
NameEnd(q, j) ==
    IF j > Len(q) \/ q[j] = "{" THEN 0
    ELSE IF q[j] \in {"}", ":", "!"} THEN j
    ELSE IF q[j] = "["
         THEN (IF IndexOf(q, "]", j + 1) = 0 THEN 0
               ELSE NameEnd(q, IndexOf(q, "]", j + 1)))
    ELSE NameEnd(q, j + 1)

\* The index of the "}" that closes the spec starting at j, count braces being
\* open; 0 when there is none (ValueError).
RECURSIVE SpecEnd(_, _, _)
SpecEnd(q, j, count) ==
    IF j > Len(q) THEN 0
    ELSE IF q[j] = "{" THEN SpecEnd(q, j + 1, count + 1)
    ELSE IF q[j] = "}"
         THEN (IF count = 1 THEN j ELSE SpecEnd(q, j + 1, count - 1))
    ELSE SpecEnd(q, j + 1, count)

\* The "[index]" parts `rest` of a field name applied to the str `text`.
RECURSIVE Accessors(_, _)
Indexed(rest, k, chars) ==
    IF \/ k = 2
       \/ \E d \in 2..(k - 1) : rest[d] \notin DOMAIN DecimalDigit
       \/ ToInt(SubSeq(rest, 2, k - 1)) >= Len(chars)
    THEN FormatError
    ELSE Accessors(SubSeq(rest, k + 1, Len(rest)),
                   <<chars[ToInt(SubSeq(rest, 2, k - 1)) + 1]>>)

Accessors(rest, text) ==
    IF rest = <<>> THEN [ok |-> TRUE, val |-> text]
    ELSE IF rest[1] # "[" \/ IndexOf(rest, "]", 2) = 0 THEN FormatError
    ELSE Indexed(rest, IndexOf(rest, "]", 2), Spell(text))

\* The object a field name stands for, `value` being the keyword argument.
GetField(name, value) ==
    IF name # <<>> /\ name[1] = "symbol" /\ (Len(name) = 1 \/ name[2] \in {".", "["})
    THEN Accessors(Tail(name), value)
    ELSE FormatError

\* The conversions !s (str), !r (repr) and !a (ascii) of a str without quotes.
Convert(c, obj) ==
    IF ~obj.ok THEN FormatError
    ELSE IF c = "s" THEN obj
    ELSE IF c \in {"r", "a"} THEN [ok |-> TRUE, val |-> <<"'">> \o obj.val \o <<"'">>]
    ELSE FormatError

\* n times the character fill.
Fill(fill, n) == [k \in 1..n |-> fill]

\* text padded to width characters.
Pad(text, fill, align, n) ==
    IF n <= 0 THEN text
    ELSE IF align = "<" THEN text \o Fill(fill, n)
    ELSE IF align = ">" THEN Fill(fill, n) \o text
    ELSE Fill(fill, n \div 2) \o text \o Fill(fill, n - (n \div 2))

\* The first p characters of text.
Truncate(text, p) ==
    IF p >= Len(Spell(text)) THEN text ELSE SubSeq(Spell(text), 1, p)

\* str.__format__(spec), the spec being
\* [[fill]align]["0"][width]["." precision]["s"]: a sign, "#", "=", a grouping
\* and every other type raise ValueError.
SpecType(sp, pos, fill, align, width, text) ==
    IF pos <= Len(sp) /\ ~(pos = Len(sp) /\ sp[pos] = "s") THEN FormatError
    ELSE [ok |-> TRUE, val |-> Pad(text, fill, align, width - Len(Spell(text)))]

SpecPrecision(sp, pos, fill, align, width, text) ==
    IF pos <= Len(sp) /\ sp[pos] = "."
    THEN (IF DigitsEnd(sp, pos + 1) = pos + 1 THEN FormatError
          ELSE SpecType(sp, DigitsEnd(sp, pos + 1), fill, align, width,
                        Truncate(text, ToInt(SubSeq(sp, pos + 1,
                                                    DigitsEnd(sp, pos + 1) - 1)))))
    ELSE SpecType(sp, pos, fill, align, width, text)

SpecWidth(sp, pos, fill, align, text) ==
    SpecPrecision(sp, DigitsEnd(sp, pos), fill, align,
                  ToInt(SubSeq(sp, pos, DigitsEnd(sp, pos) - 1)), text)

SpecZero(sp, pos, fill, filled, align, text) ==
    IF pos <= Len(sp) /\ sp[pos] = "0"
    THEN SpecWidth(sp, pos + 1, IF filled THEN fill ELSE "0", align, text)
    ELSE SpecWidth(sp, pos, fill, align, text)

FormatSpec(text, sp) ==
    IF Len(sp) >= 2 /\ sp[2] \in {"<", ">", "^"} /\ sp[1] \in Character
    THEN SpecZero(sp, 3, sp[1], TRUE, sp[2], text)
    ELSE IF Len(sp) >= 1 /\ sp[1] \in {"<", ">", "^"}
         THEN SpecZero(sp, 2, " ", FALSE, sp[1], text)
    ELSE SpecZero(sp, 1, " ", FALSE, "<", text)

\* The text q formatted from index i on, acc being the text formatted so far
\* and depth the levels of fields left (2 for the format string, 1 for a spec).
RECURSIVE FormatFrom(_, _, _, _, _)
Formatted(q, r, next, value, acc, depth) ==
    IF ~r.ok THEN FormatError ELSE FormatFrom(q, next, value, acc \o r.val, depth)

Expanded(q, sp, obj, next, value, acc, depth) ==
    IF ~sp.ok THEN FormatError
    ELSE Formatted(q, FormatSpec(obj.val, Spell(sp.val)), next, value, acc, depth)

\* The field whose converted object is obj and whose spec is `spec`; the text
\* goes on at index next.
WithSpec(q, spec, obj, next, value, acc, depth) ==
    IF ~obj.ok THEN FormatError
    ELSE Expanded(q,
                  IF \E k \in 1..Len(spec) : spec[k] = "{"
                  THEN FormatFrom(spec, 1, value, <<>>, depth - 1)
                  ELSE [ok |-> TRUE, val |-> spec],
                  obj, next, value, acc, depth)

\* The field opened by the "{" at index i, j being the end of its name.
Field(q, i, j, value, acc, depth) ==
    IF j = 0 THEN FormatError
    ELSE IF q[j] = "}"
         THEN WithSpec(q, <<>>, GetField(SubSeq(q, i + 1, j - 1), value), j + 1,
                       value, acc, depth)
    ELSE IF q[j] = ":"
         THEN (IF SpecEnd(q, j + 1, 1) = 0 THEN FormatError
               ELSE WithSpec(q, SubSeq(q, j + 1, SpecEnd(q, j + 1, 1) - 1),
                             GetField(SubSeq(q, i + 1, j - 1), value),
                             SpecEnd(q, j + 1, 1) + 1, value, acc, depth))
    ELSE IF j + 2 > Len(q) THEN FormatError
    ELSE IF q[j + 2] = "}"
         THEN WithSpec(q, <<>>,
                       Convert(q[j + 1], GetField(SubSeq(q, i + 1, j - 1), value)),
                       j + 3, value, acc, depth)
    ELSE IF q[j + 2] # ":" \/ SpecEnd(q, j + 3, 1) = 0 THEN FormatError
    ELSE WithSpec(q, SubSeq(q, j + 3, SpecEnd(q, j + 3, 1) - 1),
                  Convert(q[j + 1], GetField(SubSeq(q, i + 1, j - 1), value)),
                  SpecEnd(q, j + 3, 1) + 1, value, acc, depth)

FormatFrom(q, i, value, acc, depth) ==
    IF depth <= 0 THEN FormatError
    ELSE IF i > Len(q) THEN [ok |-> TRUE, val |-> acc]
    ELSE IF q[i] \in {"{", "}"} /\ i < Len(q) /\ q[i + 1] = q[i]
         THEN FormatFrom(q, i + 2, value, Append(acc, q[i]), depth)
    ELSE IF q[i] = "}" THEN FormatError
    ELSE IF q[i] = "{" THEN Field(q, i, NameEnd(q, i + 1), value, acc, depth)
    ELSE FormatFrom(q, i + 1, value, Append(acc, q[i]), depth)

\* heading.format(symbol=symbol.upper()) on the heading of a parsed JSON section.
FormatStr(heading, symbol) ==
    FormatFrom(Characters(heading), 1, <<Upper(symbol)>>, <<>>, 2)

\* content[key]['heading'].format(...) raises: content[key] is not a dict (a
\* number has no `in`, a str or list takes no str index), the heading is not
\* a str, or str.format raises on the heading.  `guarded` is the
\* isinstance(content[key], dict) test of final_json_generator.py line 187.
JsonHeadingRaises(v, guarded, symbol) ==
    CASE v[1] = "obj" ->
            /\ HasHeading(v)
            /\ \/ v[2][<<"heading">>][1] # "str"
               \/ ~FormatStr(v[2][<<"heading">>][2], symbol).ok
      [] v[1] \in {"str", "arr"} -> ~guarded /\ HasHeading(v)
      [] OTHER -> ~guarded

\* The parsed JSON with the headings of its narrative sections written for the
\* symbol (statica.py lines 183-185, final_json_generator.py lines 186-188).
FormatJsonHeadings(content, symbol) ==
    <<"obj",
      [k \in DOMAIN content[2] |->
          IF k \in JsonSections(content) /\ content[2][k][1] = "obj"
             /\ HasHeading(content[2][k])
          THEN <<"obj", [content[2][k][2] EXCEPT
                           ![<<"heading">>] =
                               <<"str", FormatStr(@[2], symbol).val>>]>>
          ELSE content[2][k]]>>

\* What a generator hands back: raised (an exception left the function),
\* fromJson (the parsed JSON `json` is returned) or the record `content`; global
\* is the value of DEFAULT_HF_CONTENT afterwards.
Raised(D) ==
    [raised |-> TRUE, fromJson |-> FALSE, json |-> PyNone, content |-> EmptyDict, global |-> D]

ReturnsJson(content, D) ==
    [raised |-> FALSE, fromJson |-> TRUE, json |-> content, content |-> EmptyDict, global |-> D]

ReturnsContent(content, global) ==
    [raised |-> FALSE, fromJson |-> FALSE, json |-> PyNone, content |-> content,
     global |-> global]

\* statica.py lines 189-192 and 196-199: the copy of the default with the
\* headings written for the symbol.
DefaultWithHeadings_statica(D, default_content) ==
    ReturnsContent(default_content, GlobalAfterItemCopy(D, default_content))

\* statica.py lines 179-199, content the value of extract_json_from_response;
\* an exception of the heading update is handled by the except branch.
AfterExtraction_statica(D, symbol, content) ==
    IF JsonTruthy(content)
       /\ ~\E k \in JsonSections(content) : JsonHeadingRaises(content[2][k], FALSE, symbol)
    THEN ReturnsJson(FormatJsonHeadings(content, symbol), D)
    ELSE DefaultWithHeadings_statica(D, FormatHeadings(D, symbol))

\* statica.py : generate_hf_content(name, symbol, sector, description) with
\* DEFAULT_HF_CONTENT = D and `response` the text the model would return.
\* HF_PROMPT.format (line 158) is inside the try block: its KeyError is handled
\* by the except branch (lines 194-199).
generate_hf_content(D, symbol, response) ==
    IF FormatRaises(HF_PROMPT_fields)
    THEN DefaultWithHeadings_statica(D, FormatHeadings(D, symbol))
    ELSE AfterExtraction_statica(D, symbol, extract_json_from_response_statica(response))

\* final_json_generator.py lines 192-196: the shallow copy of the default with
\* the headings written for the symbol.
DefaultWithHeadings_final(D, default_content) ==
    ReturnsContent(default_content, GlobalAfterShallowCopy(D, default_content))

\* final_json_generator.py lines 183-200, content the value of
\* extract_json_from_response; after an exception of the heading update the
\* except branch returns DEFAULT_HF_CONTENT.copy().
AfterExtraction_final(D, symbol, content) ==
    IF ~JsonTruthy(content) THEN DefaultWithHeadings_final(D, FormatHeadings(D, symbol))
    ELSE IF \E k \in JsonSections(content) : JsonHeadingRaises(content[2][k], TRUE, symbol)
         THEN ReturnsContent(D, D)
         ELSE ReturnsJson(FormatJsonHeadings(content, symbol), D)

\* final_json_generator.py : generate_gemini_content.  GEMINI_PROMPT.format
\* (line 168) is before the try block: its KeyError leaves the function.
generate_gemini_content_final(D, symbol, response) ==
    IF FormatRaises(HF_PROMPT_fields) THEN Raised(D)
    ELSE AfterExtraction_final(D, symbol, extract_json_from_response_final(response))

\* gemini_content_generator.py lines 183-188, content the value of
\* extract_json_from_response.
AfterExtraction_gemini(D, content) ==
    IF JsonTruthy(content) THEN ReturnsJson(content, D) ELSE ReturnsContent(D, D)

\* gemini_content_generator.py : generate_gemini_content.  GEMINI_PROMPT.format
\* (line 161) is inside the try block; the except branch returns
\* DEFAULT_HF_CONTENT itself (line 192).
generate_gemini_content_gemini(D, symbol, response) ==
    IF FormatRaises(HF_PROMPT_fields) THEN ReturnsContent(D, D)
    ELSE AfterExtraction_gemini(D, extract_json_from_response_gemini(response))

\* market_data of statica.py generate_project_json (lines 254-259):
\* fetch_cmc_data(symbol) or the record of "N/A".
NotAvailable == [k \in StatKeys |-> <<"N/A">>]

\* The sentinel statistics whatever fetch_cmc_data returned.
market_data_statica_sentinel(fetched) == NotAvailable

\* fetch_cmc_data(symbol) or {the four 'N/A' statistics}   (lines 253-258)
market_data_statica(fetched) ==
    IF ~fetched.isNone /\ DOMAIN fetched.val # {} THEN fetched.val ELSE NotAvailable

\* Floats are modelled by integers.  The two floats that are not finite numbers
\* have codes outside the range 0..100 of the scores: float('nan') and
\* float('inf').  Neither is falsy, and pd.isna(float('inf')) is False.
FloatNaN == 1000

FloatInf == 1001

IsFinite(v) == v \notin {FloatNaN, FloatInf}

\* A CSV cell of a score column: empty (pandas reads NaN) or a number.
NaN == [isna |-> TRUE, val |-> 0]

Num(v) == [isna |-> FALSE, val |-> v]

\* float(row.get(col, default)) if pd.notna(row.get(col)) else default
CellOrDefault(cell, default) == IF ~cell.isna THEN cell.val ELSE default

\* The benchmarkScores object of statica.py generate_project_json (lines 295-306).
benchmarkScores_statica(g, e, f, s) ==
    [growth |-> g, earning |-> e, fairValue |-> f, safety |-> s,
     barData |-> <<[label |-> "Growth", value |-> g, color |-> "#4CAF50"],
                   [label |-> "Earning", value |-> e, color |-> "#2196F3"],
                   [label |-> "Fair Value", value |-> f, color |-> "#FFC107"],
                   [label |-> "Safety", value |-> s, color |-> "#9C27B0"]>>]

\* name.lower().replace(" ", "-") on the project names of the rows (line 274).
NameSlug(name) ==
    CASE name = "Bitcoin" -> "bitcoin"
      [] name = "Ethereum" -> "ethereum"
      [] OTHER -> name

\* The project dict of statica.py generate_project_json (lines 271-311) from the
\* sections c of hf_content and projectSize, the dict built at lines 280-283.
Project_statica(c, projectSize, row, project_id) ==
    [id |-> project_id,
     coinId |-> "00000000-0000-0000-0000-000000000000",
     name |-> NameSlug(row.Project),
     assetOverview |->
        [valueGeneration |-> c.valueGeneration,
         marketPosition |-> c.marketPosition,
         projectSize |-> projectSize,
         RealWorldImpact |-> c.RealWorldImpact],
     projectNarrative |->
        [founders |-> c.founders, problemSolving |-> c.problemSolving],
     researchAnalysis |->
        [strengths |-> c.strengths, weaknesses |-> c.weaknesses],
     benchmarkScores |->
        benchmarkScores_statica(CellOrDefault(row.UGS, 0), CellOrDefault(row.EQS, 0),
                                CellOrDefault(row.FVS, 0), CellOrDefault(row.SS, 0)),
     whitepaper |-> c.whitepaper]

\* hf_content[key] for the nine keys read at lines 278-306, hf_content being
\* parsed JSON.
JsonContent(json) == [key \in ContentKeys |-> json[2][<<key>>]]

\* {**hf_content["projectSize"], "keyStats": market_data} on a parsed JSON object.
JsonWithKeyStats(v, market_data) == <<"obj", DictSet(v[2], <<"keyStats">>, market_data)>>

\* Building the project from parsed JSON raises: hf_content[key] raises KeyError
\* for a missing key and **hf_content["projectSize"] raises TypeError when the
\* value is no mapping.
JsonProjectRaises(json) ==
    \/ \E key \in ContentKeys : <<key>> \notin DOMAIN json[2]
    \/ json[2][<<"projectSize">>][1] # "obj"

\* statica.py lines 262-315, hf the value of generate_hf_content; the except
\* branch re-raises (line 315).
Assemble_statica(hf, row, project_id, market_data) ==
    IF hf.fromJson
    THEN (IF JsonProjectRaises(hf.json)
          THEN [raised |-> TRUE, fromJson |-> TRUE, json |-> hf.json,
                project |-> EmptyDict, global |-> hf.global]
          ELSE [raised |-> FALSE, fromJson |-> TRUE, json |-> hf.json,
                global |-> hf.global,
                project |->
                    Project_statica(JsonContent(hf.json),
                                    JsonWithKeyStats(hf.json[2][<<"projectSize">>],
                                                     market_data),
                                    row, project_id)])
    ELSE [raised |-> FALSE, fromJson |-> FALSE, json |-> PyNone, global |-> hf.global,
          project |-> Project_statica(hf.content,
                                      WithKeyStats(hf.content.projectSize, market_data),
                                      row, project_id)]

\* statica.py : generate_project_json(row), with project_id the uuid4 drawn at
\* line 248, `fetched` the value fetch_cmc_data returns and `response` the text
\* the model would return.
generate_project_json(D, row, project_id, fetched, response) ==
    Assemble_statica(generate_hf_content(D, row.Symbol, response), row, project_id,
                     market_data_statica(fetched))

(***************************************************************************)
(* googledoctojson.py : validate_benchmark_scores                          *)
(***************************************************************************)
\* A JSON value that is no number (a string such as 'N/A', or null): subtracting
\* a float from it raises TypeError.
NonNumber == 1002

Abs(x) == IF x < 0 THEN -x ELSE x

\* abs(a - b) > 0.01 on floats (line 147).  A difference with nan, and
\* inf - inf, is nan and compares False; a difference of inf with a finite
\* number is inf.
Differs(a, b) ==
    IF a = FloatNaN \/ b = FloatNaN THEN FALSE
    ELSE IF a = FloatInf \/ b = FloatInf THEN a # b
    ELSE 100 * Abs(a - b) > 1

\* str.lower() of a project name; project['name'].replace('-', ' ').title()
\* .lower() (lines 102-103) gives the same text for the names of one word.
LowerName(name) ==
    CASE name \in {"Bitcoin", "bitcoin"} -> "bitcoin"
      [] name \in {"Ethereum", "ethereum"} -> "ethereum"
      [] OTHER -> name

\* Lines 96-103: the rows whose Symbol matches in upper case, and when there is
\* none and the project has a name, the rows whose Project matches the name.
matching_row(symbol, project, scores_df) ==
    LET BySymbol(r) == Upper(r.Symbol) = Upper(symbol)
        ByName(r) == LowerName(r.Project) = LowerName(project.name)
        first == SelectSeq(scores_df, BySymbol)
    IN IF first = <<>> /\ "name" \in DOMAIN project
       THEN SelectSeq(scores_df, ByName)
       ELSE first

\* Lines 115-121: the scores of the first matching row, 0.0 for an empty cell.
csv_scores(row) ==
    [growth |-> CellOrDefault(row.UGS, 0), earning |-> CellOrDefault(row.EQS, 0),
     fairValue |-> CellOrDefault(row.FVS, 0), safety |-> CellOrDefault(row.SS, 0)]

\* Lines 127-138 (and 165-170): the benchmarkScores bar chart built from the CSV.
barData_csv(csv) ==
    <<[label |-> "Growth", value |-> csv.growth, color |-> "#4CAF50"],
      [label |-> "Earning", value |-> csv.earning, color |-> "#2196F3"],
      [label |-> "Fair Value", value |-> csv.fairValue, color |-> "#FFC107"],
      [label |-> "Safety", value |-> csv.safety, color |-> "#9C27B0"]>>

\* The order of the loop of line 145.
ScoreOrder == <<"growth", "earning", "fairValue", "safety">>

\* d[key] = value on a dict.
DictPut(d, key, value) ==
    [k \in DOMAIN d \cup {key} |-> IF k = key THEN value ELSE d[k]]

\* Lines 145-150 from the i-th key on: a score is overwritten in place when it
\* is missing or differs from the CSV by more than 0.01; the comparison raises
\* TypeError on a score that is no number, after the earlier keys were written.
RECURSIVE UpdateScores(_, _, _, _)
UpdateScores(benchmarkScores, csv, i, changed) ==
    IF i > Len(ScoreOrder)
    THEN [scores |-> benchmarkScores, changed |-> changed, raised |-> FALSE]
    ELSE LET key == ScoreOrder[i]
         IN IF key \notin DOMAIN benchmarkScores
            THEN UpdateScores(DictPut(benchmarkScores, key, csv[key]), csv, i + 1, TRUE)
            ELSE IF benchmarkScores[key] = NonNumber
            THEN [scores |-> benchmarkScores, changed |-> changed, raised |-> TRUE]
            ELSE IF Differs(benchmarkScores[key], csv[key])
            THEN UpdateScores(DictPut(benchmarkScores, key, csv[key]), csv, i + 1, TRUE)
            ELSE UpdateScores(benchmarkScores, csv, i + 1, changed)

\* Lines 154-162: the entries labelled 'Growth', 'Earning', 'Fair Value' and
\* 'Safety' take the CSV value; an entry with another label is left as it is.
UpdateBarData(barData, csv) ==
    [i \in 1..Len(barData) |->
        CASE barData[i].label = "Growth" -> [barData[i] EXCEPT !.value = csv.growth]
          [] barData[i].label = "Earning" -> [barData[i] EXCEPT !.value = csv.earning]
          [] barData[i].label = "Fair Value" -> [barData[i] EXCEPT !.value = csv.fairValue]
          [] barData[i].label = "Safety" -> [barData[i] EXCEPT !.value = csv.safety]
          [] OTHER -> barData[i]]

\* Lines 152-170 on the scores left by the loop.
WithBarData(benchmarkScores, csv, changed) ==
    IF changed /\ "barData" \in DOMAIN benchmarkScores
    THEN DictPut(benchmarkScores, "barData", UpdateBarData(benchmarkScores.barData, csv))
    ELSE IF changed
    THEN DictPut(benchmarkScores, "barData", barData_csv(csv))
    ELSE benchmarkScores

\* Lines 152-178 for u the outcome of the loop of lines 145-150.
AfterLoop(project, csv, u) ==
    IF u.raised
    THEN [project |-> DictPut(project, "benchmarkScores", u.scores), flag |-> FALSE]
    ELSE [project |-> DictPut(project, "benchmarkScores",
                              WithBarData(u.scores, csv, u.changed)),
          flag |-> u.changed]

\* Lines 124-172 for the project and the scores of its row.  The project is
\* changed in place, so what was written before an exception stays written
\* (lines 174-178 return the same object with the flag False).
UpdateProject(project, csv) ==
    IF "benchmarkScores" \notin DOMAIN project
    THEN [project |-> DictPut(project, "benchmarkScores",
                              DictPut(csv, "barData", barData_csv(csv))),
          flag |-> TRUE]
    ELSE AfterLoop(project, csv, UpdateScores(project.benchmarkScores, csv, 1, FALSE))

\* Lines 105-172 for m the matching rows; the first one is used (lines 110-112).
FromMatch(project, m) ==
    IF m = <<>>
    THEN [project |-> project, flag |-> FALSE]
    ELSE UpdateProject(project, csv_scores(m[1]))

\* validate_benchmark_scores(project_data, scores_df) for project_data the dict
\* {symbol: project}: the pair (project_data, flag) it returns, the first
\* component being the project under the symbol.
validate_benchmark_scores(symbol, project, scores_df) ==
    FromMatch(project, matching_row(symbol, project, scores_df))

(***************************************************************************)
(* googledoctojson.py : validate_project_data, main                        *)
(***************************************************************************)
\* validate_project_data(project_name, project_data) for project_data a parsed
\* JSON object whose first key is `token`: (token, project_data[token]), or
\* (None, None) when the token is empty or its value is no dict (lines 46-49).
validate_project_data(project_data) ==
    IF project_data.token = "" \/ ~project_data.value.isDict
    THEN [token |-> None, data |-> None]
    ELSE [token |-> Some(project_data.token), data |-> Some(project_data.value.dict)]

\* `if token and validated_data:` (line 213): None, '' and {} are falsy.
TokenAndData(v) ==
    /\ ~v.token.isNone /\ v.token.val # ""
    /\ ~v.data.isNone /\ DOMAIN v.data.val # {}

\* Lines 217-220: the project after validate_benchmark_scores when the score
\* sheet was loaded, and the flag scores_changed.
Scored(token, project, scores_df) ==
    IF scores_df.isNone THEN [project |-> project, flag |-> FALSE]
    ELSE validate_benchmark_scores(token, project, scores_df.val)

\* Lines 222-226 writing the project only when the token is not in new_data yet.
Store_keep_existing(st, token, scored) ==
    [new_data |-> IF token \in DOMAIN st.new_data THEN st.new_data
                  ELSE DictPut(st.new_data, token, scored.project),
     success_count |-> st.success_count + 1,
     error_count |-> st.error_count,
     score_updates |-> st.score_updates + (IF scored.flag THEN 1 ELSE 0)]

\* Lines 219-226: new_data[token] = project_data[token]; the counters.
Store(st, token, scored) ==
    [new_data |-> DictPut(st.new_data, token, scored.project),
     success_count |-> st.success_count + 1,
     error_count |-> st.error_count,
     score_updates |-> st.score_updates + (IF scored.flag THEN 1 ELSE 0)]

\* Lines 212-229: one iteration of the loop, v being what validate_project_data
\* returned.
MergeStep(st, v, scores_df) ==
    IF TokenAndData(v)
    THEN Store(st, v.token.val, Scored(v.token.val, v.data.val, scores_df))
    ELSE [st EXCEPT !.error_count = @ + 1]

\* Lines 211-229: the loop over the parsed projects from the k-th on.
RECURSIVE MergeLoop(_, _, _, _)
MergeLoop(st, projects, k, scores_df) ==
    IF k > Len(projects) THEN st
    ELSE MergeLoop(MergeStep(st, validate_project_data(projects[k]), scores_df),
                   projects, k + 1, scores_df)

\* Lines 231-233: save_json writes new_data to the output file.
Saved(st) ==
    [saved |-> TRUE, file |-> st.new_data, success_count |-> st.success_count,
     error_count |-> st.error_count, score_updates |-> st.score_updates]

\* googledoctojson.py main for `projects` the list parse_project_text returned,
\* existing_data the dict load_existing_json returned and scores_df the sheet
\* (None when it could not be read): the content of the output file and the
\* counters.  Without projects main returns before anything is written
\* (lines 198-200).
main_googledoc(projects, existing_data, scores_df) ==
    IF projects = <<>>
    THEN [saved |-> FALSE, file |-> existing_data, success_count |-> 0,
          error_count |-> 0, score_updates |-> 0]
    ELSE Saved(MergeLoop([new_data |-> existing_data, success_count |-> 0,
                          error_count |-> 0, score_updates |-> 0],
                         projects, 1, scores_df))

(***************************************************************************)
(* cmc_data_collector.py : fetch_cmc_data                                  *)
(***************************************************************************)
\* A Symbol cell that is empty: pandas reads the float NaN, which is no str.
MissingSymbol == "NaN"

\* The status of a rate-limited request (line 53).
TooManyRequests == 429

\* The seconds slept before the request is issued again (line 55).
RetryDelay == 60

\* SYMBOL_MAPPING (lines 22-28).
SYMBOL_MAPPING ==
    ("aptos" :> "APT") @@ ("sonic labs (prev. fantom)" :> "FTM")
    @@ ("sky (formerly makerdao)" :> "SKY") @@ ("benqi liquid staked avax" :> "QI")
    @@ ("venus usdt" :> "VUSDT")

\* SYMBOL_MAPPING.get(symbol.lower(), symbol.upper()) on lower-case symbols (line 39).
cmc_symbol_of(symbol) ==
    IF symbol \in DOMAIN SYMBOL_MAPPING THEN SYMBOL_MAPPING[symbol] ELSE Upper(symbol)

\* response.raise_for_status() raises HTTPError for a status of 400 to 599.
RaisesForStatus(response) == response.status >= 400 /\ response.status < 600

DigitChars == <<"0", "1", "2", "3", "4", "5", "6", "7", "8", "9">>

\* The decimal digits of a natural number.
RECURSIVE Decimal(_)
Decimal(n) ==
    IF n < 10 THEN <<DigitChars[n + 1]>>
    ELSE Decimal(n \div 10) \o <<DigitChars[(n % 10) + 1]>>

\* The number of binary digits of a natural number.
RECURSIVE BitLength(_)
BitLength(n) == IF n = 0 THEN 0 ELSE 1 + BitLength(n \div 2)

\* Long division of r by d in base 2, r < d: the remainder left after `bits`
\* more significant digits of the quotient (the digits before the first 1 are
\* not significant while `started` is FALSE), and the last digit produced.
RECURSIVE BinaryTail(_, _, _, _, _)
BinaryTail(r, d, bits, started, last) ==
    IF bits = 0 THEN [r |-> r, last |-> last]
    ELSE IF 2 * r >= d
         THEN BinaryTail(2 * r - d, d, bits - 1, TRUE, 1)
         ELSE BinaryTail(2 * r, d, IF started THEN bits - 1 ELSE bits, started, 0)

\* The float x / unit has the 53 most significant binary digits of the
\* quotient, rounded to nearest (ties to even): -1 when the float is below the
\* exact quotient, 1 when it is above, 0 when it equals it.  t is the division
\* carried to the 53rd digit.
FloatSide(unit, t) ==
    IF t.r = 0 THEN 0
    ELSE IF 2 * t.r < unit THEN -1
    ELSE IF 2 * t.r > unit THEN 1
    ELSE IF t.last = 1 THEN 1 ELSE -1

FloatError(x, unit) ==
    FloatSide(unit,
              BinaryTail(x % unit, unit, 53 - BitLength(x \div unit), x >= unit, 0))

\* The hundredths printed for a quotient that lies halfway between floor and
\* floor + 1 hundredths: the float decides, and a float that is exactly
\* halfway is rounded to the even neighbour.
TieHundredths(floor, side) ==
    IF side < 0 THEN floor
    ELSE IF side > 0 THEN floor + 1
    ELSE IF floor % 2 = 0 THEN floor ELSE floor + 1

\* "{:.2f}".format(x / unit) on the hundredths h.
TwoDecimals(h) ==
    Decimal(h \div 100) \o <<".", DigitChars[((h % 100) \div 10) + 1],
                               DigitChars[(h % 10) + 1]>>

\* "{:.2f}".format(x / unit) for unit 1e9 or 1e6 and a whole amount x below
\* 2^31: the float x / unit is rounded to hundredths.
Fixed2(x, unit) ==
    TwoDecimals(
        IF x % (unit \div 100) < unit \div 200 THEN x \div (unit \div 100)
        ELSE IF x % (unit \div 100) > unit \div 200 THEN x \div (unit \div 100) + 1
        ELSE TieHundredths(x \div (unit \div 100), FloatError(x, unit)))

\* Lines 62-74: the four statistics formatted from the coin of the response; a
\* falsy number (0, None) gives 'N/A'.
FormatStats(coin, cmc_symbol) ==
    [marketCap |->
        IF coin.quote.USD.market_cap # 0
        THEN <<"$">> \o Fixed2(coin.quote.USD.market_cap, 1000000000) \o <<" billion">>
        ELSE <<"N/A">>,
     tradingVolume |->
        IF coin.quote.USD.volume_24h # 0
        THEN <<"$">> \o Fixed2(coin.quote.USD.volume_24h, 1000000) \o <<" million (24h)">>
        ELSE <<"N/A">>,
     circulatingSupply |->
        IF coin.circulating_supply # 0
        THEN Fixed2(coin.circulating_supply, 1000000) \o <<" million ", cmc_symbol>>
        ELSE <<"N/A">>,
     totalSupply |->
        IF coin.total_supply # 0
        THEN Fixed2(coin.total_supply, 1000000) \o <<" million ", cmc_symbol>>
        ELSE <<"N/A">>]

\* Lines 59-77 on the response that was kept: None when the symbol is not in
\* data['data'].
FromResponse(response, cmc_symbol) ==
    IF cmc_symbol \in DOMAIN response.data
    THEN Some(FormatStats(response.data[cmc_symbol], cmc_symbol))
    ELSE None

\* fetch_cmc_data(symbol) when the API answers the first request with
\* replies[1] and a second one with replies[2]: the value returned, the number
\* of requests issued and the seconds slept.  raise_for_status (line 50) comes
\* before the test of the status (line 53), and its HTTPError is caught at
\* line 78.
fetch_cmc_data(symbol, replies) ==
    IF symbol = MissingSymbol
    THEN [result |-> None, requests |-> 0, slept |-> 0]
    ELSE IF RaisesForStatus(replies[1])
    THEN [result |-> None, requests |-> 1, slept |-> 0]
    ELSE IF replies[1].status = TooManyRequests
    THEN (IF RaisesForStatus(replies[2])
          THEN [result |-> None, requests |-> 2, slept |-> RetryDelay]
          ELSE [result |-> FromResponse(replies[2], cmc_symbol_of(symbol)),
                requests |-> 2, slept |-> RetryDelay])
    ELSE [result |-> FromResponse(replies[1], cmc_symbol_of(symbol)),
          requests |-> 1, slept |-> 0]

(***************************************************************************)
(* Inputs.                                                                 *)
(***************************************************************************)
\* Largest number of entries written under a Strengths or Weaknesses header.
MaxEntries == 4

\* Largest number of members of the JSON object of a response.
MaxMembers == 2

Symbols == {"btc", "eth"}

\* The symbols that are empty or only whitespace; str.upper() leaves them as
\* they are.
BlankSymbols == {"", " "}

\* The Project column of the row of a symbol.
ProjectName(symbol) == IF symbol = "btc" THEN "Bitcoin" ELSE "Ethereum"

\* The score columns UGS, EQS, FVS, SS of a row.
ScoreRows ==
    { <<NaN, NaN, NaN, NaN>>,
      <<Num(73), Num(12), Num(50), Num(0)>>,
      <<NaN, Num(12), NaN, Num(0)>>,
      <<Num(100), NaN, Num(50), NaN>>,
      <<Num(73), Num(12), Num(FloatInf), Num(0)>> }

\* The rows of the score sheet (Symbol and Project present).
Rows ==
    { [Symbol |-> sym, Project |-> ProjectName(sym),
       UGS |-> c[1], EQS |-> c[2], FVS |-> c[3], SS |-> c[4]] :
      sym \in Symbols, c \in ScoreRows }

\* A row that may follow the first row of the sheet read by main.
LaterRows ==
    { [Symbol |-> "btc", Project |-> "Bitcoin",
       UGS |-> NaN, EQS |-> Num(12), FVS |-> NaN, SS |-> Num(0)] }

\* The sheets whose first row is `row`: the row alone, or followed by a later row.
SheetsFrom(row) == {<<row>>} \cup {<<row, later>> : later \in LaterRows}

\* The day of datetime.now() when complete_content_generator.py is imported.
Dates == {<<"2025-01-01">>, <<"2025-06-30">>}

\* The four market statistics of one coin.
Stats ==
    [marketCap |-> <<"$1.20 billion">>, tradingVolume |-> <<"$3.40 million (24h)">>,
     circulatingSupply |-> <<"5.60 million BTC">>, totalSupply |-> <<"7.80 million BTC">>]

\* What load_cmc_data returns: {} (no file) or the statistics of the coins collected.
CmcDatas == { Some(EmptyDict), Some([sym \in {"btc"} |-> Stats]) }

\* What fetch_cmc_data returns: None or the statistics of the coin.
Fetched == { None, Some(Stats) }

\* The ids uuid.uuid4() may return.
Uuids == {"uuid-1", "uuid-2"}

\* The content written after the header of narrative section k, and the
\* whitepaper summary.
SectionBody == <<"vg", "mp", "ps", "rwi", "fo", "pr">>

SummaryBody == "sum"

\* Titles and descriptions of the entries written under Strengths and Weaknesses.
StrengthTitles == <<"Alpha", "Beta", "Gamma", "Delta", "Kappa", "Sigma">>

StrengthDescs == <<"solid", "quick", "safe", "cheap", "open", "neat">>

WeaknessTitles == <<"Risk", "Debt", "Churn", "Lag", "Fees", "Bugs">>

WeaknessDescs == <<"slow", "costly", "opaque", "thin", "young", "rare">>

\* A section header in the style "Name:" or "**Name**:".
Header(name, style) ==
    IF style = "bold" THEN <<"**">> \o name \o <<"**", ":">> ELSE name \o <<":">>

\* Entry i of a list section in format fmt:
\*   bold      **Title**: desc.
\*   numbered  1. Title: desc.
\*   dash      - Title: desc.
\*   para      Title is desc.   followed by an empty line
Entry(fmt, i, titles, descs) ==
    CASE fmt = "bold" -> <<"**", titles[i], "**", ":", " ", descs[i], ".", "\n">>
      [] fmt = "numbered" ->
            <<(IF i % 2 = 1 THEN "1" ELSE "2"), ".", " ", titles[i], ":", " ", descs[i], ".", "\n">>
      [] fmt = "dash" -> <<"-", " ", titles[i], ":", " ", descs[i], ".", "\n">>
      [] OTHER -> <<titles[i], " ", "is", " ", descs[i], ".", "\n", "\n">>

RECURSIVE Entries(_, _, _, _)
Entries(fmt, n, titles, descs) ==
    IF n = 0 THEN <<>>
    ELSE Entries(fmt, n - 1, titles, descs) \o Entry(fmt, n, titles, descs)

\* The narrative sections k..6 that are in mask, each as "Header: body.\n", or
\* as "Header:\n" with nothing after the colon when k is in blank.
RECURSIVE Narratives(_, _, _, _)
Narratives(mask, blank, style, k) ==
    IF k > 6 THEN <<>>
    ELSE (IF k \in mask
          THEN Header(sections[k].name, style)
               \o (IF k \in blank THEN <<"\n">> ELSE <<" ", SectionBody[k], ".", "\n">>)
          ELSE <<>>)
         \o Narratives(mask, blank, style, k + 1)

\* A raw model output in the layout the prompt asks for: the narrative sections
\* of mask (those of blank without content), Strengths with nS entries,
\* Weaknesses with nW entries (both left out when lists is FALSE), and the
\* Whitepaper Summary.
BuildTextWith(mask, blank, lists, nS, nW, style, fmt) ==
    Narratives(mask, blank, style, 1)
    \o (IF lists
        THEN Header(Strengths, style) \o <<"\n">> \o Entries(fmt, nS, StrengthTitles, StrengthDescs)
             \o Header(Weaknesses, style) \o <<"\n">> \o Entries(fmt, nW, WeaknessTitles, WeaknessDescs)
        ELSE <<>>)
    \o Header(WhitepaperSummary, style) \o <<" ", SummaryBody, ".">>

BuildText(mask, lists, nS, nW, style, fmt) ==
    BuildTextWith(mask, {}, lists, nS, nW, style, fmt)

\* The sets of narrative sections written with a header and no content.
Blanks == {{5}, {1, 6}, {2, 3, 4}}

AllSections == 1..6

Styles == {"plain", "bold"}

\* The layouts of a list entry.
Formats == {"bold", "numbered", "dash", "para"}

\* The texts handed to parse_text_to_sections when it is called on its own.
ParseTexts ==
    { BuildText(mask, TRUE, nS, nW, "plain", fmt) :
        mask \in {AllSections, {}}, nS \in 0..MaxEntries, nW \in 0..MaxEntries,
        fmt \in Formats }
    \cup { BuildText(mask, TRUE, nS, nW, "bold", "bold") :
             mask \in {AllSections, {}}, nS \in 0..MaxEntries, nW \in 0..MaxEntries }
    \cup { BuildText(mask, TRUE, 3, 3, "plain", "bold") : mask \in SUBSET AllSections }
    \cup { BuildText(mask, FALSE, 0, 0, style, "bold") :
             mask \in {AllSections, {}}, style \in Styles }
    \cup { BuildTextWith(AllSections, blank, TRUE, 3, 3, style, "bold") :
             blank \in Blanks, style \in Styles }
    \cup { BuildTextWith({1, 2, 3}, {2}, TRUE, 3, 3, "plain", "bold") }
    \cup { <<>>, <<" ", "\n">>, <<"x", "y">> }

\* What generate_gemini_content of complete_content_generator.py returns
\* (lines 325-357): None after an exception, else response.text.
RawContents ==
    { None }
    \cup { Some(BuildText(mask, TRUE, 3, 3, "plain", "bold")) :
             mask \in {{}, {1}, {2, 3}, {1, 2, 4, 6}, {3, 4, 5, 6}} }
    \cup { Some(BuildText(AllSections, TRUE, n, n, "plain", "bold")) : n \in 0..MaxEntries }
    \cup { Some(BuildTextWith(AllSections, blank, TRUE, 3, 3, "plain", "bold")) :
             blank \in Blanks }
    \cup { Some(BuildText(AllSections, FALSE, 0, 0, "plain", "bold")),
           Some(BuildTextWith({1, 2, 3}, {2}, TRUE, 3, 3, "plain", "bold")),
           Some(<<>>), Some(<<" ", "\n">>) }

\* The values of the members of the JSON objects of the responses.
MemberValues ==
    { <<"1">>,
      <<QUOTE, "b", QUOTE>>,
      <<QUOTE, ",", " ", "]", QUOTE>>,
      <<QUOTE, "x", BACKSLASH, QUOTE, "y", QUOTE>>,
      <<"{", QUOTE, "b", QUOTE, ":", "1", "}">>,
      <<"[", "1", ",", "2", "]">>,
      <<"[", "1", ",", "]">> }

\* The key of member i.
MemberKey(i) == IF i % 2 = 1 THEN "a" ELSE "c"

\* "key":value of the members i.. of vs, separated by commas.
RECURSIVE MembersText(_, _)
MembersText(vs, i) ==
    IF i > Len(vs) THEN <<>>
    ELSE <<QUOTE, MemberKey(i), QUOTE, ":">> \o vs[i]
         \o (IF i < Len(vs) THEN <<",">> ELSE <<>>) \o MembersText(vs, i + 1)

\* The text of an object with member values vs, with a comma before the closing
\* brace when trailing.
ObjectText(vs, trailing) ==
    <<"{">> \o MembersText(vs, 1) \o (IF trailing THEN <<",">> ELSE <<>>) \o <<"}">>

Wrappers == {"bare", "fenced", "prose"}

\* The object text as a model writes it: alone, in a code fence, or inside a sentence.
Wrap(w, t) ==
    CASE w = "bare" -> t
      [] w = "fenced" -> <<FENCE, "json", "\n">> \o t \o <<"\n", FENCE>>
      [] OTHER -> <<"o", "k", ":", " ">> \o t \o <<" ", "e", "n", "d">>

\* The responses handed to extract_json_from_response.
Responses ==
    { Wrap(w, ObjectText(vs, tr)) :
        w \in Wrappers, vs \in UNION {[1..n -> MemberValues] : n \in 0..MaxMembers},
        tr \in BOOLEAN }
    \cup { <<>>, <<"n", "o">> }

\* The texts written under the header of a list section: the entries in one
\* layout, numbered entries followed by a bold title without description, a
\* bold entry followed by an empty line and a paragraph, entries with a repeated
\* title, and an entry with the title of a default item.
ListBodies ==
    { Entries(fmt, n, StrengthTitles, StrengthDescs) : fmt \in Formats, n \in 0..MaxEntries }
    \cup { Entries("numbered", 2, StrengthTitles, StrengthDescs) \o <<"**", "End", "**">>,
           Entries("bold", 1, StrengthTitles, StrengthDescs)
               \o <<"\n", "Extra", ":", " ", "more", ".">>,
           Entries("bold", 2, StrengthTitles, StrengthDescs)
               \o <<"\n", "Extra", " ", "is", " ", "more", ".", " ", "And", " ", "more", ".">>,
           Entries("bold", 3, <<"Alpha", "Alpha", "Beta">>, StrengthDescs),
           Entries("para", 2, <<"Alpha", "Alpha">>, StrengthDescs),
           Entries("bold", 1, <<"Strong Ecosystem Integration">>, StrengthDescs),
           Entries("bold", 2, <<"Alpha", "Market Competition">>, StrengthDescs) }

\* The texts handed to extract_strengths_weaknesses with section_name: the
\* section header and a list body, or a text without the header.
ListTexts(section_name) ==
    { Header(section_name, "plain") \o <<"\n">> \o body : body \in ListBodies }
    \cup { <<"x", "y">> }

\* The score sets handed to create_project_json: None, or a dict with some of
\* the four fields.
ScoreSets ==
    { None }
    \cup { Some([k \in K |-> CASE k = "growth" -> 73 [] k = "earning" -> 12
                               [] k = "fairValue" -> 50 [] OTHER -> 0]) :
             K \in SUBSET ScoreKeys }
    \cup { Some([k \in ScoreKeys |-> IF k = "fairValue" THEN FloatNaN ELSE 50]) }

\* Largest number of rows of the score sheet handed to googledoctojson.py.
MaxRows == 2

\* The rows of that score sheet.
SheetRows ==
    { [Symbol |-> "btc", Project |-> "Bitcoin",
       UGS |-> c[1], EQS |-> c[2], FVS |-> c[3], SS |-> c[4]] :
      c \in { <<Num(73), Num(12), Num(50), Num(0)>>, <<NaN, Num(12), NaN, Num(0)>> } }
    \cup { [Symbol |-> "eth", Project |-> "Ethereum",
            UGS |-> Num(100), EQS |-> NaN, FVS |-> Num(50), SS |-> NaN] }

\* The score sheets: pd.read_csv gives the rows in the order of the file.
RECURSIVE SeqsUpTo(_, _)
SeqsUpTo(S, n) ==
    IF n = 0 THEN { <<>> }
    ELSE SeqsUpTo(S, n - 1)
         \cup { Append(q, x) : q \in {p \in SeqsUpTo(S, n - 1) : Len(p) = n - 1}, x \in S }

ScoreSheets == SeqsUpTo(SheetRows, MaxRows)

\* The benchmarkScores objects as create_project_json of
\* complete_content_generator.py and generate_project_json of statica.py write
\* them.
GeneratedBenchmarks ==
    { benchmarkScores_complete(50, 50, 50, 50),
      benchmarkScores_complete(73, 12, 50, 0),
      benchmarkScores_statica(0, 0, 0, 0),
      benchmarkScores_statica(73, 12, 50, 0) }

\* The benchmarkScores objects of the parsed projects: as the generators write
\* them, without barData, with a score that is no number, and with a score
\* missing.
BenchmarkInputs ==
    GeneratedBenchmarks
    \cup {
      [growth |-> 73, earning |-> 12, fairValue |-> 50, safety |-> 1],
      [earning |-> 12, barData |-> barData_csv([growth |-> 5, earning |-> 12,
                                                fairValue |-> 5, safety |-> 5])],
      DictPut(benchmarkScores_statica(10, 12, 50, 0), "earning", NonNumber) }

\* The projects under a token of the parsed file: with and without name, with
\* and without benchmarkScores.
ProjectInputs ==
    { [name |-> n, benchmarkScores |-> b] : n \in {"Bitcoin", "bitcoin"}, b \in BenchmarkInputs }
    \cup { [benchmarkScores |-> b] : b \in BenchmarkInputs }
    \cup { [name |-> "bitcoin"], [name |-> "solana"] }

\* The tokens of the parsed file.
Tokens == {"btc", "sol"}

\* Largest number of rows of the score sheet read by main of
\* complete_content_generator.py.
MaxSheet == 5

\* The rows of that sheet: with and without symbol.
MainRows ==
    { [Symbol |-> "btc", Project |-> "Bitcoin",
       UGS |-> Num(73), EQS |-> Num(12), FVS |-> Num(50), SS |-> Num(0)],
      [Symbol |-> "eth", Project |-> "Ethereum",
       UGS |-> NaN, EQS |-> Num(12), FVS |-> NaN, SS |-> Num(0)],
      [Symbol |-> MissingSymbol, Project |-> "Unlisted",
       UGS |-> NaN, EQS |-> NaN, FVS |-> NaN, SS |-> NaN] }

MainSheets == SeqsUpTo(MainRows, MaxSheet)

\* What generate_gemini_content returns in the loop of main: a text in the
\* layout of the prompt for btc, None (the request failed) for the others.
RawContentOf(symbol) ==
    IF symbol = "btc" THEN Some(BuildText(AllSections, TRUE, 3, 3, "plain", "bold"))
    ELSE None

\* The coins of the responses of the market-data API.
Coins ==
    { [quote |-> [USD |-> [market_cap |-> 1234567890, volume_24h |-> 45678901]],
       circulating_supply |-> 19500000, total_supply |-> 21000000],
      [quote |-> [USD |-> [market_cap |-> 0, volume_24h |-> 999999]],
       circulating_supply |-> 1004999, total_supply |-> 0],
      [quote |-> [USD |-> [market_cap |-> 1235000000, volume_24h |-> 15000]],
       circulating_supply |-> 125000, total_supply |-> 375000] }

\* The responses of the market-data API: a status and the `data` object of the
\* JSON body.
ApiResponses ==
    { [status |-> 200, data |-> [s \in {sym} |-> coin]] :
        sym \in {"BTC", "APT"}, coin \in Coins }
    \cup { [status |-> st, data |-> EmptyDict] : st \in {200, TooManyRequests, 500} }

\* The symbols handed to fetch_cmc_data.
FetchSymbols == {"btc", "aptos", MissingSymbol}

\* Largest number of projects parsed from the input file of googledoctojson.py.
MaxBatch == 3

\* The value under the first key of a parsed JSON object: a dict, or a value
\* that is no dict (a string, a list).
Dict(d) == [isDict |-> TRUE, dict |-> d]

NotDict == [isDict |-> FALSE, dict |-> EmptyDict]

\* The parsed JSON objects, by first key and its value: projects with and
\* without benchmarkScores, the empty dict, a value that is no dict, and the
\* empty key.
ParsedObjects ==
    { [token |-> "btc",
       value |-> Dict([name |-> "bitcoin",
                       benchmarkScores |-> benchmarkScores_statica(0, 0, 0, 0)])],
      [token |-> "btc",
       value |-> Dict([name |-> "Bitcoin",
                       benchmarkScores |-> benchmarkScores_complete(73, 12, 50, 0)])],
      [token |-> "btc", value |-> Dict(EmptyDict)],
      [token |-> "sol", value |-> Dict([name |-> "solana"])],
      [token |-> "sol", value |-> NotDict],
      [token |-> "", value |-> Dict([name |-> "bitcoin"])] }

\* The lists parse_project_text returns.
Batches == SeqsUpTo(ParsedObjects, MaxBatch)

\* What load_existing_json returns: {} or the projects saved by an earlier run.
ExistingDatas ==
    { EmptyDict,
      [t \in {"btc", "eth"} |->
          IF t = "btc" THEN [name |-> "bitcoin-old"] ELSE [name |-> "ethereum"]] }

\* scores_df of main: None when the sheet could not be read.
LoadedSheets ==
    { None,
      Some(<<[Symbol |-> "btc", Project |-> "Bitcoin",
              UGS |-> Num(73), EQS |-> Num(12), FVS |-> Num(50), SS |-> Num(0)]>>) }

\* The text the remote model would return to a JSON-mode generator.
GenResponses == { <<>>, ObjectText(<<>>, FALSE), ObjectText(<<(<<"1">>)>>, FALSE) }

(***************************************************************************)
(* The state machine.  The scripts are sequential: one invocation runs at  *)
(* a time (pc = "idle" before, "returned" after), and the module-level     *)
(* default records live as long as the process.                            *)
(***************************************************************************)
VARIABLES
    DEFAULT_CONTENT,     \* complete_content_generator.py : DEFAULT_CONTENT
    DEFAULT_HF_CONTENT,  \* DEFAULT_HF_CONTENT of statica, final and gemini
    pc,                  \* "idle" or "returned"
    call,                \* the invocation that returned last, with its arguments
    out                  \* what that invocation produced

vars == <<DEFAULT_CONTENT, DEFAULT_HF_CONTENT, pc, call, out>>

NoCall == [op |-> "none"]

NoOut == [kind |-> "none"]

Init ==
    /\ \E d \in Dates : DEFAULT_CONTENT = DefaultContentValue(d)
    /\ DEFAULT_HF_CONTENT = [statica |-> DEFAULT_HF_CONTENT_statica,
                             final |-> DEFAULT_HF_CONTENT_final,
                             gemini |-> DEFAULT_HF_CONTENT_gemini]
    /\ pc = "idle"
    /\ call = NoCall
    /\ out = NoOut

\* scores_data[symbol] of complete_content_generator.py main (lines 465-470).
scores_data_complete(row) ==
    [growth |-> CellOrDefault(row.UGS, 50), earning |-> CellOrDefault(row.EQS, 50),
     fairValue |-> CellOrDefault(row.FVS, 50), safety |-> CellOrDefault(row.SS, 50)]

\* The test `raw_content is not None` in place of the truthiness test: the
\* empty text is handed to parse_text_to_sections.
RawTruthy_not_none(raw_content) == ~raw_content.isNone

\* `if raw_content:` (line 513): None and '' are falsy.
RawTruthy(raw_content) == ~raw_content.isNone /\ raw_content.val # <<>>

\* Lines 513-544: the content of the record, parsed from raw_content or the
\* deep copy of the default with the headings written for the symbol.
content_of_main(D, raw_content, symbol) ==
    IF RawTruthy(raw_content) THEN parse_text_to_sections(D, raw_content.val, symbol)
    ELSE FormatHeadings(D, symbol)

\* What an assembling function or a generator leaves: the project or content it
\* returned, or nothing when an exception left it.
ResultOut(r) ==
    IF r.raised THEN [kind |-> "raised"]
    ELSE IF "project" \in DOMAIN r
         THEN (IF "fromJson" \in DOMAIN r /\ r.fromJson
               THEN [kind |-> "json_project", json |-> r.json, project |-> r.project]
               ELSE [kind |-> "project", project |-> r.project])
         ELSE (IF r.fromJson THEN [kind |-> "json_content", json |-> r.json]
               ELSE [kind |-> "content", content |-> r.content])

\* df.dropna(subset=["Symbol"]) keeps the index labels of df (line 477): the
\* labels, counted from 0, of the rows with a symbol.
RECURSIVE FilteredLabels(_, _)
FilteredLabels(df, k) ==
    IF k > Len(df) THEN <<>>
    ELSE (IF df[k].Symbol = MissingSymbol THEN <<>> ELSE <<k - 1>>)
         \o FilteredLabels(df, k + 1)

\* scores_data.get(symbol) after the loop of lines 452-473: the scores of the
\* last row of df with the symbol.
ScoresOfSheet(df, symbol) ==
    LET K == {k \in 1..Len(df) : df[k].Symbol = symbol}
    IN  IF K = {} THEN None ELSE Some(scores_data_complete(df[Max(K)]))

\* Line 563: the combined file is written after the row with index label i
\* when i + 1 is a multiple of 5 or i is the number of filtered rows minus 1.
SavesCombined(i, filtered) == (i + 1) % 5 = 0 \/ i = Len(filtered) - 1

\* Lines 490-575 for the row with index label i: the project is built from the
\* generated or the default content and added to all_projects, a counter is
\* incremented, and the combined file is written when SavesCombined holds; an
\* exception leaves all_projects and the file as they are (lines 570-574).
AfterRow(st, df, filtered, i, raw_content, r) ==
    IF r.raised
    THEN [st EXCEPT !.pos = @ + 1, !.error_count = @ + 1]
    ELSE LET all == DictPut(st.all_projects, df[i + 1].Symbol, r.project)
         IN  [kind |-> "main",
              pos |-> st.pos + 1,
              all_projects |-> all,
              success_count |-> st.success_count + (IF RawTruthy(raw_content) THEN 1 ELSE 0),
              error_count |-> st.error_count + (IF RawTruthy(raw_content) THEN 0 ELSE 1),
              file |-> IF SavesCombined(i, filtered) THEN Some(all) ELSE st.file]

\* Lines 480-482: all_projects and the counters before the loop; nothing is
\* written to all_projects.json yet.
LoopStart ==
    [kind |-> "main", pos |-> 1, all_projects |-> EmptyDict,
     success_count |-> 0, error_count |-> 0, file |-> None]

\* What the first iteration of the loop leaves for the sheet df: the project it
\* built (or the exception caught at line 570) and, in `loop`, all_projects,
\* the counters and the combined file.
FirstRowOut(df, raw_content, r) ==
    ResultOut(r) @@ [loop |-> AfterRow(LoopStart, df, FilteredLabels(df, 1), 0,
                                       raw_content, r)]

\* complete_content_generator.py main on the sheet df, up to the end of the
\* first iteration of the loop over the rows: scores_data is filled from the
\* whole sheet (lines 452-473) and the first row is processed (lines 488-575)
\* with raw_content the value generate_gemini_content returned and cmc_data the
\* value load_cmc_data returned.
main_complete ==
    /\ pc = "idle"
    /\ \E row \in Rows, raw_content \in RawContents, cmc_data \in CmcDatas :
        \E df \in SheetsFrom(row) :
            /\ call' = [op |-> "main_complete", symbol |-> row.Symbol, row |-> row,
                        df |-> df, raw_content |-> raw_content, cmc_data |-> cmc_data]
            /\ out' = FirstRowOut(df, raw_content,
                          create_project_json(
                              content_of_main(DEFAULT_CONTENT, raw_content, row.Symbol),
                              row.Symbol, row.Project, cmc_data,
                              ScoresOfSheet(df, row.Symbol)))
            /\ DEFAULT_CONTENT' =
                  GlobalAfterDeepCopy(DEFAULT_CONTENT,
                                      FormatHeadings(DEFAULT_CONTENT, row.Symbol))
    /\ pc' = "returned"
    /\ UNCHANGED DEFAULT_HF_CONTENT

\* complete_content_generator.py main (lines 440-487): the sheet and the market
\* data are loaded and the loop over the filtered rows begins with an empty
\* all_projects; all_projects.json is not written yet.
main_loop_start ==
    /\ pc = "idle"
    /\ \E df \in MainSheets, cmc_data \in {Some(EmptyDict)} :
        /\ call' = [op |-> "main", df |-> df, cmc_data |-> cmc_data]
        /\ out' = LoopStart
    /\ pc' = "main_loop"
    /\ UNCHANGED <<DEFAULT_CONTENT, DEFAULT_HF_CONTENT>>

\* One iteration of the loop of line 488, on the next filtered row.
main_loop_iteration ==
    /\ pc = "main_loop"
    /\ out.pos <= Len(FilteredLabels(call.df, 1))
    /\ LET filtered == FilteredLabels(call.df, 1)
           i == filtered[out.pos]
           row == call.df[i + 1]
       IN  out' = AfterRow(out, call.df, filtered, i,
                           RawContentOf(row.Symbol),
                           create_project_json(
                               content_of_main(DEFAULT_CONTENT, RawContentOf(row.Symbol),
                                               row.Symbol),
                               row.Symbol, row.Project, call.cmc_data,
                               ScoresOfSheet(call.df, row.Symbol)))
    /\ UNCHANGED <<DEFAULT_CONTENT, DEFAULT_HF_CONTENT, pc, call>>

\* The loop has run over every filtered row and main returns (lines 576-578).
main_loop_end ==
    /\ pc = "main_loop"
    /\ out.pos > Len(FilteredLabels(call.df, 1))
    /\ pc' = "returned"
    /\ UNCHANGED <<DEFAULT_CONTENT, DEFAULT_HF_CONTENT, call, out>>

\* complete_content_generator.py : parse_text_to_sections(text, symbol).
call_parse_text_to_sections ==
    /\ pc = "idle"
    /\ \E text \in ParseTexts, symbol \in Symbols \cup BlankSymbols :
        /\ call' = [op |-> "parse_text_to_sections", symbol |-> symbol, text |-> text]
        /\ out' = [kind |-> "content",
                   content |-> parse_text_to_sections(DEFAULT_CONTENT, text, symbol)]
        /\ DEFAULT_CONTENT' =
              GlobalAfterDeepCopy(DEFAULT_CONTENT, FormatHeadings(DEFAULT_CONTENT, symbol))
    /\ pc' = "returned"
    /\ UNCHANGED DEFAULT_HF_CONTENT

\* The state after a JSON-mode function of module `variant` has handed back r.
Returned(variant, r) ==
    /\ out' = ResultOut(r)
    /\ DEFAULT_HF_CONTENT' = [DEFAULT_HF_CONTENT EXCEPT ![variant] = r.global]
    /\ pc' = "returned"
    /\ UNCHANGED DEFAULT_CONTENT

\* statica.py : generate_project_json(row), called by main for a row with
\* Symbol and Project (lines 332-339).
call_generate_project_json ==
    /\ pc = "idle"
    /\ \E row \in Rows, project_id \in Uuids, fetched \in Fetched, response \in GenResponses :
        /\ call' = [op |-> "generate_project_json", symbol |-> row.Symbol, row |-> row,
                    fetched |-> fetched, response |-> response]
        /\ Returned("statica",
                generate_project_json(DEFAULT_HF_CONTENT.statica, row, project_id,
                                      fetched, response))

\* final_json_generator.py : generate_gemini_content(name, symbol, sector, description).
call_generate_gemini_content_final ==
    /\ pc = "idle"
    /\ \E row \in Rows, response \in GenResponses :
        /\ call' = [op |-> "generate_gemini_content_final", symbol |-> row.Symbol,
                    row |-> row, response |-> response]
        /\ Returned("final",
                generate_gemini_content_final(DEFAULT_HF_CONTENT.final, row.Symbol, response))

\* gemini_content_generator.py main, one iteration of the loop (lines 211-227)
\* over the rows left by the filter of line 205; the content is written to
\* <symbol>_gemini_content.json.
main_gemini ==
    /\ pc = "idle"
    /\ \E row \in {x \in Rows : x.Symbol = "btc"}, response \in GenResponses :
        /\ call' = [op |-> "main_gemini", symbol |-> row.Symbol, row |-> row,
                    response |-> response]
        /\ Returned("gemini",
                generate_gemini_content_gemini(DEFAULT_HF_CONTENT.gemini, row.Symbol, response))

Variants == {"final", "statica", "gemini"}

\* extract_json_from_response(response) of the module `variant`.
call_extract_json_from_response ==
    /\ pc = "idle"
    /\ \E variant \in Variants, response \in Responses :
        /\ call' = [op |-> "extract_json_from_response", variant |-> variant,
                    response |-> response]
        /\ out' = [kind |-> "json",
                   val |-> CASE variant = "final" -> extract_json_from_response_final(response)
                             [] variant = "statica" -> extract_json_from_response_statica(response)
                             [] OTHER -> extract_json_from_response_gemini(response),
                   loads_calls |-> IF variant = "final" THEN loads_calls_final(response)
                                   ELSE loads_calls_statica(response),
                   raised |-> extract_raises(variant,
                                             LocateSpan(StripFences(Strip(response))))]
    /\ pc' = "returned"
    /\ UNCHANGED <<DEFAULT_CONTENT, DEFAULT_HF_CONTENT>>

\* create_project_json(content, symbol, name, cmc_data, scores) on the default
\* content with the headings written for the symbol.
call_create_project_json ==
    /\ pc = "idle"
    /\ \E symbol \in Symbols \cup BlankSymbols, cmc_data \in CmcDatas \cup {None},
          scores \in ScoreSets :
        /\ call' = [op |-> "create_project_json", symbol |-> symbol,
                    cmc_data |-> cmc_data, scores |-> scores]
        /\ out' = ResultOut(create_project_json(
                      FormatHeadings(DEFAULT_CONTENT, symbol), symbol,
                      ProjectName(symbol), cmc_data, scores))
    /\ pc' = "returned"
    /\ UNCHANGED <<DEFAULT_CONTENT, DEFAULT_HF_CONTENT>>

\* googledoctojson.py : validate_benchmark_scores({symbol: project}, scores_df).
call_validate_benchmark_scores ==
    /\ pc = "idle"
    /\ \E symbol \in Tokens, project \in ProjectInputs, scores_df \in ScoreSheets :
        /\ call' = [op |-> "validate_benchmark_scores", symbol |-> symbol,
                    project |-> project, scores_df |-> scores_df]
        /\ out' = [kind |-> "validated",
                   result |-> validate_benchmark_scores(symbol, project, scores_df)]
    /\ pc' = "returned"
    /\ UNCHANGED <<DEFAULT_CONTENT, DEFAULT_HF_CONTENT>>

\* googledoctojson.py : main(input_file, scores_csv_file).
call_main_googledoc ==
    /\ pc = "idle"
    /\ \E projects \in Batches, existing_data \in ExistingDatas, scores_df \in LoadedSheets :
        /\ call' = [op |-> "main_googledoc", projects |-> projects,
                    existing_data |-> existing_data, scores_df |-> scores_df]
        /\ out' = [kind |-> "merged",
                   merged |-> main_googledoc(projects, existing_data, scores_df)]
    /\ pc' = "returned"
    /\ UNCHANGED <<DEFAULT_CONTENT, DEFAULT_HF_CONTENT>>

\* cmc_data_collector.py : fetch_cmc_data(symbol), the API answering the
\* requests with first and then second.
call_fetch_cmc_data ==
    /\ pc = "idle"
    /\ \E symbol \in FetchSymbols, first \in ApiResponses, second \in ApiResponses :
        /\ call' = [op |-> "fetch_cmc_data", symbol |-> symbol,
                    replies |-> <<first, second>>]
        /\ out' = [kind |-> "fetched",
                   fetched |-> fetch_cmc_data(symbol, <<first, second>>)]
    /\ pc' = "returned"
    /\ UNCHANGED <<DEFAULT_CONTENT, DEFAULT_HF_CONTENT>>

\* extract_strengths_weaknesses(text, section_name), with the trace of its steps.
call_extract_strengths_weaknesses ==
    /\ pc = "idle"
    /\ \E section_name \in {Strengths, Weaknesses} :
        \E text \in ListTexts(section_name) :
            /\ call' = [op |-> "extract_strengths_weaknesses", text |-> text,
                        section_name |-> section_name]
            /\ out' = [kind |-> "items",
                       items |-> extract_strengths_weaknesses(text, section_name),
                       trace |-> ListTrace(
                           section_content_of(text, section_name),
                           ProcessItems(FirstMatching(
                               section_content_of(text, section_name).text, 1)))]
    /\ pc' = "returned"
    /\ UNCHANGED <<DEFAULT_CONTENT, DEFAULT_HF_CONTENT>>

\* The result has been written out and the caller goes on to its next invocation.
Finish ==
    /\ pc = "returned"
    /\ pc' = "idle"
    /\ call' = NoCall
    /\ out' = NoOut
    /\ UNCHANGED <<DEFAULT_CONTENT, DEFAULT_HF_CONTENT>>

Next ==
    \/ main_complete
    \/ call_parse_text_to_sections
    \/ call_generate_project_json
    \/ call_generate_gemini_content_final
    \/ main_gemini
    \/ call_extract_json_from_response
    \/ call_extract_strengths_weaknesses
    \/ call_create_project_json
    \/ call_validate_benchmark_scores
    \/ call_fetch_cmc_data
    \/ call_main_googledoc
    \/ main_loop_start
    \/ main_loop_iteration
    \/ main_loop_end
    \/ Finish

Spec == Init /\ [][Next]_vars

TypeOK ==
    /\ pc \in {"idle", "main_loop", "returned"}
    /\ (pc = "idle") <=> (call = NoCall)
    /\ (pc = "idle") <=> (out = NoOut)

(***************************************************************************)
(* Properties.                                                             *)
(***************************************************************************)
\* The last invocation produced a content record or a project record.
Produced == out.kind \in {"project", "content"}

\* Section k of the record produced.
SectionOf(k) ==
    IF out.kind = "content" THEN out.content[k]
    ELSE IF k \in {"founders", "problemSolving"} THEN out.project.projectNarrative[k]
    ELSE out.project.assetOverview[k]

StrengthsOf ==
    IF out.kind = "content" THEN out.content.strengths
    ELSE out.project.researchAnalysis.strengths

WeaknessesOf ==
    IF out.kind = "content" THEN out.content.weaknesses
    ELSE out.project.researchAnalysis.weaknesses

\* Entry i of a list section as the (title, description) pair it was written with.
ListedItem(titles, descs, i) == [title |-> <<titles[i]>>, description |-> <<descs[i], ".">>]

\* C1: every record produced, for every raw model output and also when the
\* defaults are used after a failed JSON extraction, has a strengths list and a
\* weaknesses list of exactly 3 items each.
C1_ExactlyThreeItems ==
    Produced => Len(StrengthsOf) = 3 /\ Len(WeaknessesOf) = 3

\* C2: the default templates are read-only: no invocation, whether it extracts
\* or falls back to the defaults, changes a module-level default record.
C2_DefaultsReadOnly ==
    [][/\ DEFAULT_CONTENT' = DEFAULT_CONTENT
       /\ DEFAULT_HF_CONTENT' = DEFAULT_HF_CONTENT]_vars

\* A record was built from the defaults and carries headings written for its
\* symbol, while the template still has its own.
C2_Witness ==
    /\ pc = "returned"
    /\ call.op = "generate_project_json"
    /\ out.kind = "project"
    /\ \A k \in NarrativeKeys :
          SectionOf(k).heading # DEFAULT_HF_CONTENT.statica[k].heading

\* C3: in every record produced, by every pipeline variant, each section heading
\* contains the upper-cased symbol of the project and no '{symbol}' placeholder.
C3_HeadingsResolved ==
    Produced =>
        \A k \in NarrativeKeys :
            /\ \E i \in DOMAIN SectionOf(k).heading : SectionOf(k).heading[i] = Upper(call.symbol)
            /\ \A i \in DOMAIN SectionOf(k).heading : SectionOf(k).heading[i] # "{symbol}"

\* Was narrative section k extracted from the text the last invocation worked on?
\* (statica's generate_project_json has no text: it assembles the defaults.)
ExtractedSection(k) ==
    /\ call.op = "main_complete"
    /\ ~call.raw_content.isNone
    /\ LET r == extract_section(call.raw_content.val, sections[k].name, sections[k].next)
       IN  r.hit /\ r.text # <<>>

\* The default section for key, with the heading written for the symbol of the call.
DefaultSection(key) ==
    IF call.op = "main_complete" THEN FormatHeadings(DEFAULT_CONTENT, call.symbol)[key]
    ELSE FormatHeadings(DEFAULT_HF_CONTENT.statica, call.symbol)[key]

\* C4: assembly is total: for every combination of extracted and absent
\* sections, every symbol, and present or absent market stats and scores, a
\* record is returned, it has all six narrative sections, and a section that was
\* not extracted has the content of the default section.
C4_AssemblyTotal ==
    call.op \in {"main_complete", "generate_project_json"} =>
        /\ out.kind = "project"
        /\ {"valueGeneration", "marketPosition", "projectSize", "RealWorldImpact"}
              \subseteq DOMAIN out.project.assetOverview
        /\ {"founders", "problemSolving"} \subseteq DOMAIN out.project.projectNarrative
        /\ \A k \in 1..6 :
              ~ExtractedSection(k) =>
                  \A f \in DOMAIN DefaultSection(sections[k].key) :
                      SectionOf(sections[k].key)[f] = DefaultSection(sections[k].key)[f]

\* A record assembled from a text with extracted sections, a section without
\* header, and a section whose header has no content; no market stats.
C4_Witness ==
    /\ pc = "returned"
    /\ call.op = "main_complete"
    /\ out.kind = "project"
    /\ call.symbol \notin DOMAIN call.cmc_data.val
    /\ \E k \in 1..6 : ExtractedSection(k)
    /\ \E k \in 1..6 :
          /\ ~ExtractedSection(k)
          /\ extract_section(call.raw_content.val, sections[k].name, sections[k].next).hit
    /\ \E k \in 1..6 :
          ~\E i \in 1..Len(call.raw_content.val) :
                HeaderAt(call.raw_content.val, i, sections[k].name)

\* The text is a valid JSON object.
IsJsonObjectText(t) == json_loads(t).ok /\ json_loads(t).val[1] = "obj"

\* C5: for every text that is a valid JSON object, nested objects included, the
\* JSON extractor returns what parsing the text directly returns.
C5_ExtractorEqualsParse ==
    (call.op = "extract_json_from_response" /\ IsJsonObjectText(call.response)) =>
        out.val = json_loads(call.response).val

\* No market stats were supplied for the project of the last invocation.
StatsAbsent ==
    IF call.op \in {"main_complete", "create_project_json"}
    THEN call.cmc_data.isNone \/ call.symbol \notin DOMAIN call.cmc_data.val
    ELSE call.fetched.isNone

\* C6: when the market stats of a project are absent, keyStats still has the
\* four fields marketCap, tradingVolume, circulatingSupply, totalSupply, each
\* with the 'N/A' sentinel.
C6_KeyStatsSentinel ==
    (out.kind = "project" /\ StatsAbsent) =>
        /\ "keyStats" \in DOMAIN out.project.assetOverview.projectSize
        /\ DOMAIN out.project.assetOverview.projectSize.keyStats = StatKeys
        /\ \A f \in StatKeys : out.project.assetOverview.projectSize.keyStats[f] = <<"N/A">>

\* The text has a Strengths section with exactly 2 '**Title**: Description'
\* entries, followed by the Weaknesses and Whitepaper Summary sections.
TwoBoldStrengths(text) ==
    \E mask \in {AllSections, {}}, nW \in 0..MaxEntries, style \in Styles :
        text = BuildText(mask, TRUE, 2, nW, style, "bold")

\* C7: for a text whose Strengths section has only 2 '**Title**: Description'
\* entries and is followed by the remaining sections, strengths is the 2
\* extracted items followed by the first item of the strengths default list.
C7_TwoExtractedOneDefault ==
    (call.op = "parse_text_to_sections" /\ TwoBoldStrengths(call.text)) =>
        out.content.strengths =
            << ListedItem(StrengthTitles, StrengthDescs, 1),
               ListedItem(StrengthTitles, StrengthDescs, 2),
               default_items_strengths[1] >>

\* The text with the 9 section headers once each in the order of the prompt, each
\* followed by a colon and its content, three entries in each list section.
CanonicalText == BuildText(AllSections, TRUE, 3, 3, "plain", "bold")

\* C8: for the canonical text all six narrative descriptions are extracted, and
\* strengths and weaknesses are exactly the three listed (title, description)
\* pairs: no default item, no text of a later section in an item.
C8_CanonicalText ==
    (call.op = "parse_text_to_sections" /\ call.text = CanonicalText) =>
        /\ \A k \in 1..6 : out.content[sections[k].key].description = <<SectionBody[k], ".">>
        /\ out.content.strengths = [i \in 1..3 |-> ListedItem(StrengthTitles, StrengthDescs, i)]
        /\ out.content.weaknesses = [i \in 1..3 |-> ListedItem(WeaknessTitles, WeaknessDescs, i)]

\* The last invocation was an iteration of main with the empty raw text.
EmptyRawText == call.op = "main_complete" /\ call.raw_content = Some(<<>>)

\* The row of the sheet whose score cells are supplied for the project of the
\* last invocation: in complete_content_generator.py main the last row of the
\* sheet with the symbol (scores_data, lines 452-473), in statica.py the row
\* being processed.
SuppliedRow ==
    IF call.op = "main_complete"
    THEN call.df[Max({k \in 1..Len(call.df) : call.df[k].Symbol = call.symbol})]
    ELSE call.row

\* C9: for an empty raw text the record has the content of the default template
\* with every heading written for the symbol, strengths and weaknesses being
\* the template's own three items each, together with the supplied market stats
\* and scores.
C9_EmptyTextGivesTemplate ==
    EmptyRawText =>
        /\ out.kind = "project"
        /\ \A k \in NarrativeKeys :
              \A f \in DOMAIN DEFAULT_CONTENT[k] :
                  SectionOf(k)[f] = FormatHeadings(DEFAULT_CONTENT, call.symbol)[k][f]
        /\ \A k \in NarrativeKeys :
              \E i \in DOMAIN SectionOf(k).heading : SectionOf(k).heading[i] = Upper(call.symbol)
        /\ StrengthsOf = DEFAULT_CONTENT.strengths
        /\ WeaknessesOf = DEFAULT_CONTENT.weaknesses
        /\ out.project.whitepaper = DEFAULT_CONTENT.whitepaper
        /\ call.symbol \in DOMAIN call.cmc_data.val =>
              out.project.assetOverview.projectSize.keyStats = call.cmc_data.val[call.symbol]
        /\ ~SuppliedRow.UGS.isna => out.project.benchmarkScores.growth = SuppliedRow.UGS.val
        /\ ~SuppliedRow.EQS.isna => out.project.benchmarkScores.earning = SuppliedRow.EQS.val
        /\ ~SuppliedRow.FVS.isna => out.project.benchmarkScores.fairValue = SuppliedRow.FVS.val
        /\ ~SuppliedRow.SS.isna => out.project.benchmarkScores.safety = SuppliedRow.SS.val

\* A record built for the empty raw text with market stats and scores supplied.
C9_Witness ==
    /\ pc = "returned"
    /\ EmptyRawText
    /\ out.kind = "project"
    /\ call.symbol \in DOMAIN call.cmc_data.val
    /\ ~SuppliedRow.UGS.isna /\ ~SuppliedRow.SS.isna
    /\ StrengthsOf # default_items_strengths

\* C10: the textual repairs are applied only after the first parse of the
\* located span has failed, and parsing is then retried exactly once: the first
\* text parsed is the span as located, a second text is parsed only when the span
\* did not parse, and a span that parses is what the result is parsed from.
C10_RepairOnlyAfterFailure ==
    (call.op = "extract_json_from_response" /\ out.loads_calls # <<>>) =>
        /\ out.loads_calls[1] = span_of(call.response)
        /\ Len(out.loads_calls) <= 2
        /\ Len(out.loads_calls) = 2 => ~json_loads(span_of(call.response)).ok
        /\ ~json_loads(span_of(call.response)).ok => Len(out.loads_calls) = 2
        /\ json_loads(span_of(call.response)).ok =>
              out.val = json_loads(span_of(call.response)).val

\* The value extract_json_from_response of module `variant` returns for response.
ExtractedFrom(variant, response) ==
    CASE variant = "final" -> extract_json_from_response_final(response)
      [] variant = "statica" -> extract_json_from_response_statica(response)
      [] OTHER -> extract_json_from_response_gemini(response)

\* The text t from index i on without its trailing commas: a comma outside a
\* string literal whose next non-blank character is a closing brace or bracket
\* is left out (inStr: index i is inside a string literal).
RECURSIVE WithoutTrailingCommas(_, _, _)
WithoutTrailingCommas(t, i, inStr) ==
    IF i > Len(t) THEN <<>>
    ELSE IF inStr
         THEN IF t[i] = BACKSLASH /\ i < Len(t)
              THEN <<t[i], t[i + 1]>> \o WithoutTrailingCommas(t, i + 2, TRUE)
              ELSE <<t[i]>> \o WithoutTrailingCommas(t, i + 1, t[i] # QUOTE)
    ELSE IF t[i] = "," /\ SkipSpace(t, i + 1) <= Len(t)
            /\ t[SkipSpace(t, i + 1)] \in {"}", "]"}
         THEN WithoutTrailingCommas(t, i + 1, FALSE)
         ELSE <<t[i]>> \o WithoutTrailingCommas(t, i + 1, t[i] = QUOTE)

\* The text is a JSON object text without nested braces whose only defect is
\* one or more trailing commas: it has one pair of braces, it differs from its
\* text without trailing commas, and that text is a valid JSON object.
OnlyTrailingCommaDefect(t) ==
    /\ Cardinality({i \in 1..Len(t) : t[i] \in {"{", "}"}}) = 2
    /\ WithoutTrailingCommas(t, 1, FALSE) # t
    /\ IsJsonObjectText(WithoutTrailingCommas(t, 1, FALSE))

\* C11: for every JSON object text without nested braces whose only defect is
\* trailing commas before a closing brace or bracket, the extractor returns the
\* structure it returns for the same text without those commas.
C11_TrailingCommasRepaired ==
    (call.op = "extract_json_from_response" /\ OnlyTrailingCommaDefect(call.response)) =>
        out.val = ExtractedFrom(call.variant, WithoutTrailingCommas(call.response, 1, FALSE))

\* The extractor of module `variant` located a span in response and the span did
\* not parse, after the repair retry included.
SpanUnparseable(variant, response) ==
    /\ LocateSpan(StripFences(Strip(response))).found
    /\ IF variant = "final"
       THEN ~json_loads(span_of(response)).ok
            /\ ~json_loads(Repair_final(span_of(response))).ok
       ELSE ~json_loads(Repair_statica(span_of(response))).ok

\* C12: the extractor distinguishes its failures: the result for a text without
\* brace-delimited span (NoJsonFound) differs from the result for every text
\* whose located span does not parse after the repair retry (UnrepairableJson),
\* so that a caller can tell the two outcomes apart.
C12_FailuresDistinguished ==
    (call.op = "extract_json_from_response"
     /\ ~LocateSpan(StripFences(Strip(call.response))).found) =>
        \A r \in Responses :
            SpanUnparseable(call.variant, r) => ExtractedFrom(call.variant, r) # out.val

\* C13: the extractor never raises for any input string: when no JSON is found
\* or parsing fails, the caller gets a value (None on failure) and no exception
\* leaves the function.
C13_ExtractorNeverRaises ==
    call.op = "extract_json_from_response" =>
        /\ ~out.raised
        /\ (~LocateSpan(StripFences(Strip(call.response))).found
            \/ SpanUnparseable(call.variant, call.response)) => out.val = PyNone

\* The extractor of statica.py has returned None for a span that does not parse.
C13_Witness ==
    /\ pc = "returned"
    /\ call.op = "extract_json_from_response"
    /\ call.variant = "statica"
    /\ SpanUnparseable(call.variant, call.response)
    /\ ~out.raised
    /\ out.val = PyNone

\* JSON-mode extraction failed entirely for the call of generate_project_json:
\* the model's text has no span, or a span that does not parse, or an empty
\* object.
ExtractionFailed ==
    /\ call.op = "generate_project_json"
    /\ ~JsonTruthy(extract_json_from_response_statica(call.response))

\* C14: when JSON-mode extraction fails entirely, every JSON-sourced section of
\* the record (six narrative sections, strengths, weaknesses, whitepaper) is the
\* default template's section with the heading resolved for the symbol, while
\* the market stats and the scores supplied for the project are in the record
\* unchanged.
C14_FallbackKeepsStatsAndScores ==
    ExtractionFailed =>
        /\ out.kind = "project"
        /\ \A key \in NarrativeKeys :
              \A f \in DOMAIN DEFAULT_HF_CONTENT.statica[key] :
                  SectionOf(key)[f] =
                      FormatHeadings(DEFAULT_HF_CONTENT.statica, call.symbol)[key][f]
        /\ out.project.researchAnalysis.strengths = DEFAULT_HF_CONTENT.statica.strengths
        /\ out.project.researchAnalysis.weaknesses = DEFAULT_HF_CONTENT.statica.weaknesses
        /\ out.project.whitepaper = DEFAULT_HF_CONTENT.statica.whitepaper
        /\ ~call.fetched.isNone =>
              out.project.assetOverview.projectSize.keyStats = call.fetched.val
        /\ ~call.row.UGS.isna => out.project.benchmarkScores.growth = call.row.UGS.val
        /\ ~call.row.EQS.isna => out.project.benchmarkScores.earning = call.row.EQS.val
        /\ ~call.row.FVS.isna => out.project.benchmarkScores.fairValue = call.row.FVS.val
        /\ ~call.row.SS.isna => out.project.benchmarkScores.safety = call.row.SS.val

\* A record assembled by statica.py after a response without JSON, for a project
\* with market stats and the four scores.
C14_Witness ==
    /\ pc = "returned"
    /\ ExtractionFailed
    /\ call.response = <<>>
    /\ ~call.fetched.isNone
    /\ ~call.row.UGS.isna /\ ~call.row.EQS.isna /\ ~call.row.FVS.isna /\ ~call.row.SS.isna
    /\ out.kind = "project"
    /\ out.project.assetOverview.valueGeneration.heading # DEFAULT_HF_CONTENT.statica.valueGeneration.heading

\* The section content the list extractor works on in the call.
ListContent == section_content_of(call.text, call.section_name).text

\* The usable items (non-empty title and description) pattern `kind` produces on s.
UsableItems(kind, s) == ProcessItems(FindAll(kind, s, 1))

\* C15: the three structured patterns are tried in the order bold, numbered,
\* dash; the patterns tried before the last one produced no usable item, the
\* trying stops before the third pattern only at a pattern that produced at
\* least one usable item, and the items kept are the usable items of the last
\* pattern tried.
C15_FirstUsablePatternWins ==
    (call.op = "extract_strengths_weaknesses" /\ out.trace.found) =>
        LET tried == out.trace.tried
        IN  /\ tried = SubSeq(patterns, 1, Len(tried))
            /\ Len(tried) >= 1
            /\ \A k \in 1..(Len(tried) - 1) : UsableItems(tried[k], ListContent) = <<>>
            /\ Len(tried) < Len(patterns) =>
                  UsableItems(tried[Len(tried)], ListContent) # <<>>
            /\ out.trace.from_patterns = UsableItems(tried[Len(tried)], ListContent)

\* C16: paragraph splitting runs only when no structured pattern yielded an
\* item; when a structured pattern yielded 1 or 2 items the paragraph loop does
\* not run, and the list returned is those items followed by default items.
C16_ParagraphsOnlyWithoutPatternItems ==
    (call.op = "extract_strengths_weaknesses" /\ out.trace.found) =>
        /\ out.trace.paragraphs_ran => out.trace.from_patterns = <<>>
        /\ Len(out.trace.from_patterns) \in {1, 2} =>
              /\ out.trace.from_paragraphs = 0
              /\ out.items = PadAndLimit(out.trace.from_patterns,
                                         default_items(call.section_name))

\* C17: no list returned by the list extractor has two items with the same
\* title (compared case-sensitively), whether the items come from a structured
\* pattern, from paragraph splitting or from the default list.
C17_NoDuplicateTitles ==
    call.op = "extract_strengths_weaknesses" =>
        \A i, j \in 1..Len(out.items) :
            i # j => out.items[i].title # out.items[j].title

\* What extract_section returns for narrative section k of the text of the call
\* of parse_text_to_sections.
SegmentOf(k) == extract_section(call.text, sections[k].name, sections[k].next)

\* C18: for every narrative section whose extraction produced non-empty text,
\* assembly changes the description only: title, readTime and difficulty tag are
\* the template's and the heading is the template's with the symbol
\* interpolated; a section that was not extracted is the template's section
\* (heading interpolated) in every field.
C18_OnlyDescriptionOverwritten ==
    call.op = "parse_text_to_sections" =>
        \A k \in 1..6 :
            LET key == sections[k].key
                template == FormatHeadings(DEFAULT_CONTENT, call.symbol)[key]
            IN  /\ DOMAIN out.content[key] = DOMAIN template
                /\ \A f \in DOMAIN template \ {"description"} :
                      out.content[key][f] = template[f]
                /\ IF SegmentOf(k).hit /\ SegmentOf(k).text # <<>>
                   THEN out.content[key].description = SegmentOf(k).text
                   ELSE out.content[key].description = template.description

\* A text with an extracted narrative section and a narrative section without
\* header has been parsed.
C18_Witness ==
    /\ pc = "returned"
    /\ call.op = "parse_text_to_sections"
    /\ \E k \in 1..6 :
          /\ SegmentOf(k).hit /\ SegmentOf(k).text # <<>>
          /\ out.content[sections[k].key].description = SegmentOf(k).text
          /\ out.content[sections[k].key].description
                # DEFAULT_CONTENT[sections[k].key].description
          /\ out.content[sections[k].key].heading # DEFAULT_CONTENT[sections[k].key].heading
    /\ \E k \in 1..6 : ~SegmentOf(k).hit

\* The header of narrative section k occurs in the text of the call.
HeaderOccurs(k) ==
    \E i \in 1..Len(call.text) : HeaderAt(call.text, i, sections[k].name)

\* C19: the section segmenter raises for no text (every call returns, with a
\* text or with null): it returns null when the section header does not occur in
\* the text, and a section whose extracted content is null or empty after
\* trimming keeps the description of the default template in the record.
C19_SegmenterSignalsAbsence ==
    call.op = "parse_text_to_sections" =>
        /\ out.kind = "content"
        /\ \A k \in 1..6 :
              /\ SegmentOf(k).hit \in BOOLEAN
              /\ ~HeaderOccurs(k) => ~SegmentOf(k).hit
              /\ (~SegmentOf(k).hit \/ SegmentOf(k).text = <<>>) =>
                    out.content[sections[k].key].description
                        = DEFAULT_CONTENT[sections[k].key].description

\* A text with a narrative section without header and a narrative section whose
\* header has nothing after it has been parsed, and both have the description of
\* the template.
C19_Witness ==
    /\ pc = "returned"
    /\ call.op = "parse_text_to_sections"
    /\ \E k \in 1..6 :
          /\ ~HeaderOccurs(k)
          /\ out.content[sections[k].key].description
                = DEFAULT_CONTENT[sections[k].key].description
    /\ \E k \in 1..6 :
          /\ SegmentOf(k).hit /\ SegmentOf(k).text = <<>>
          /\ out.content[sections[k].key].description
                = DEFAULT_CONTENT[sections[k].key].description

\* The cell of the score sheet read for a benchmark score.
ScoreCell(row, key) ==
    CASE key = "growth" -> row.UGS [] key = "earning" -> row.EQS
      [] key = "fairValue" -> row.FVS [] OTHER -> row.SS

\* The score set of the last invocation has a field for the key.
ScoreSupplied(key) ==
    IF call.op = "create_project_json"
    THEN ~call.scores.isNone /\ key \in DOMAIN call.scores.val
    ELSE ~ScoreCell(SuppliedRow, key).isna

\* The supplied value of the score.
SuppliedScore(key) ==
    IF call.op = "create_project_json" THEN call.scores.val[key]
    ELSE ScoreCell(SuppliedRow, key).val

\* The default of the profile of the last invocation: 50 in
\* complete_content_generator.py, 0 in statica.py.
ProfileDefault == IF call.op = "generate_project_json" THEN 0 ELSE 50

\* C20: in a produced project each of the four benchmark scores growth, earning,
\* fairValue and safety missing from the supplied score set (an absent set, a
\* set without the field, an empty cell of the sheet) is the profile's default,
\* 50 for complete_content_generator.py and 0 for statica.py, and every
\* supplied score is passed through unchanged.
C20_MissingScoresDefaulted ==
    (pc = "returned" /\ out.kind = "project"
     /\ call.op \in {"create_project_json", "main_complete", "generate_project_json"})
    => \A key \in ScoreKeys :
        out.project.benchmarkScores[key]
            = IF ScoreSupplied(key) THEN SuppliedScore(key) ELSE ProfileDefault

\* create_project_json returned a project for a score set with a supplied
\* score of 0 and a missing field.
C20_Witness ==
    /\ pc = "returned" /\ out.kind = "project"
    /\ call.op = "create_project_json"
    /\ ~call.scores.isNone
    /\ "safety" \in DOMAIN call.scores.val /\ call.scores.val["safety"] = 0
    /\ "growth" \notin DOMAIN call.scores.val
    /\ out.project.benchmarkScores.safety = 0
    /\ out.project.benchmarkScores.growth = 50

\* The value of the barData entry of a metric in the produced project.
BarValue(key) ==
    LET b == out.project.benchmarkScores.barData
        i == CASE key = "growth" -> 1 [] key = "earning" -> 2
               [] key = "fairValue" -> 3 [] OTHER -> 4
    IN b[i].value

\* C21: in a produced project a supplied score that is not a finite number
\* (NaN, infinity) is replaced by the profile default, 50 or 0, in
\* benchmarkScores, and the barData entry of the metric has the same value.
C21_NonFiniteScoresDefaulted ==
    (pc = "returned" /\ out.kind = "project"
     /\ call.op \in {"create_project_json", "main_complete", "generate_project_json"})
    => \A key \in ScoreKeys :
        (ScoreSupplied(key) /\ ~IsFinite(SuppliedScore(key)))
        => /\ out.project.benchmarkScores[key] = ProfileDefault
           /\ BarValue(key) = ProfileDefault

\* The labels and the colours barData is said to carry, in order.
FixedLabels == <<"Growth", "Earning", "Fair Value", "Safety">>

FixedColors == <<"#4CAF50", "#2196F3", "#FFC107", "#9C27B0">>

\* C22: in every produced project benchmarkScores.barData has exactly four
\* entries, for growth, earning, fair value and safety in this order, with the
\* labels 'Growth', 'Earning', 'Fair Value', 'Safety' and the colours #4CAF50,
\* #2196F3, #FFC107, #9C27B0.
C22_BarDataFixedLabels ==
    (pc = "returned" /\ out.kind = "project"
     /\ call.op \in {"create_project_json", "main_complete", "generate_project_json"})
    => LET b == out.project.benchmarkScores.barData
       IN /\ Len(b) = 4
          /\ \A i \in 1..4 : b[i].label = FixedLabels[i] /\ b[i].color = FixedColors[i]

\* What the last invocation hands back when it is run again on the same inputs
\* and the draw of uuid.uuid4() is u.
AssembledAgain(u) ==
    CASE call.op = "generate_project_json" ->
            ResultOut(generate_project_json(DEFAULT_HF_CONTENT.statica, call.row, u,
                                            call.fetched, call.response))
      [] call.op = "create_project_json" ->
            ResultOut(create_project_json(FormatHeadings(DEFAULT_CONTENT, call.symbol),
                                          call.symbol, ProjectName(call.symbol),
                                          call.cmc_data, call.scores))
      [] OTHER -> out

\* C23: assembling a record again from the same text, symbol, market stats and
\* scores gives the same output: the record does not depend on randomness, on
\* the clock or on earlier invocations.
C23_AssemblyIdempotent ==
    (pc = "returned" /\ call.op \in {"generate_project_json", "create_project_json"})
    => \A u \in Uuids : AssembledAgain(u) = out

\* C24: a symbol that is empty or only whitespace is rejected: the invocation
\* reports a failure to its caller and hands back no record with headings
\* written for the blank symbol.
C24_BlankSymbolRejected ==
    (pc = "returned" /\ call.op \in {"parse_text_to_sections", "create_project_json"}
     /\ call.symbol \in BlankSymbols)
    => out.kind = "raised"

\* The rows of the sheet matching the project of the last invocation of
\* validate_benchmark_scores.
MatchOfCall == matching_row(call.symbol, call.project, call.scores_df)

\* Two finite numbers within 0.01 of each other.
Within(a, b) == IsFinite(a) /\ IsFinite(b) /\ 100 * Abs(a - b) <= 1

\* C25: after validate_benchmark_scores ran on a project written by a generator
\* for which the sheet has a matching row, each of the four benchmark scores is
\* within 0.01 of the value of the sheet (0.0 for an empty cell) and every
\* barData entry has the value of the score of its metric, whatever its label.
C25_ScoresAndBarsFollowSheet ==
    (pc = "returned" /\ call.op = "validate_benchmark_scores"
     /\ MatchOfCall # <<>>
     /\ "benchmarkScores" \in DOMAIN call.project
     /\ call.project.benchmarkScores \in GeneratedBenchmarks)
    => LET b == out.result.project.benchmarkScores
           csv == csv_scores(MatchOfCall[1])
       IN \A i \in 1..4 :
             /\ Within(b[ScoreOrder[i]], csv[ScoreOrder[i]])
             /\ b.barData[i].value = b[ScoreOrder[i]]

\* C27: whenever validate_benchmark_scores returns the flag False (no matching
\* row, nothing to update, or an error while comparing a score) the project
\* data it returns is the data it was given: no score and no barData entry has
\* been modified.
C27_FalseFlagLeavesDataUnchanged ==
    (pc = "returned" /\ call.op = "validate_benchmark_scores" /\ ~out.result.flag)
    => out.result.project = call.project

\* The content written under the header of narrative section k in the text of
\* the call: what follows the colon of the header up to the next header of any
\* section, or to the end of the text, trimmed.
OwnContent(k) ==
    LET t == call.text
        h == Min({i \in 1..Len(t) : HeaderAt(t, i, sections[k].name)})
        c == IndexOf(t, ":", h + Len(sections[k].name))
        E == {i \in (c + 1)..Len(t) :
                \E j \in 1..Len(sections) : HeaderAt(t, i, sections[j].name)}
        e == IF E = {} THEN Len(t) + 1 ELSE Min(E)
    IN  IF c = 0 THEN <<>> ELSE Strip(SubSeq(t, c + 1, e - 1))

\* C26: a narrative section is replaced by its default only when its own header
\* is missing or its own content is empty: a section whose header and non-empty
\* content are in the text has its description extracted, also when the header
\* of the following section is not in the text.
C26_SectionIndependentOfNextHeader ==
    (pc = "returned" /\ call.op = "parse_text_to_sections")
    => \A k \in 1..6 :
        (HeaderOccurs(k) /\ OwnContent(k) # <<>>)
        => /\ SegmentOf(k).hit
           /\ out.content[sections[k].key].description = SegmentOf(k).text

\* C28: when the main loop of complete_content_generator.py has finished,
\* all_projects.json holds every project processed in the run: the combined
\* file was last written after the last project was added, whatever rows were
\* dropped for a missing symbol.
C28_CombinedFileComplete ==
    (pc = "returned" /\ call.op = "main" /\ DOMAIN out.all_projects # {})
    => out.file = Some(out.all_projects)

\* C29: when the market-data API answers a request with status 429,
\* fetch_cmc_data waits, issues the request once more, and returns the
\* formatted stats of the second response when that response succeeds.
C29_RetryAfterRateLimit ==
    (pc = "returned" /\ call.op = "fetch_cmc_data"
     /\ call.symbol # MissingSymbol
     /\ call.replies[1].status = TooManyRequests
     /\ call.replies[2].status = 200
     /\ cmc_symbol_of(call.symbol) \in DOMAIN call.replies[2].data)
    => /\ out.fetched.requests = 2
       /\ out.fetched.slept = RetryDelay
       /\ out.fetched.result
            = Some(FormatStats(call.replies[2].data[cmc_symbol_of(call.symbol)],
                               cmc_symbol_of(call.symbol)))

\* The k-th parsed project of the call of main passes the test of line 213.
ValidAt(k) == TokenAndData(validate_project_data(call.projects[k]))

\* The positions of the valid projects of the batch with token t.
ValidWith(t) ==
    {k \in 1..Len(call.projects) : ValidAt(k) /\ call.projects[k].token = t}

\* The tokens of the batch.
BatchTokens == {call.projects[k].token : k \in 1..Len(call.projects)}

\* C30: after googledoctojson.main merged a batch of parsed projects into the
\* existing output, every token of the existing file that is not in the batch
\* has its previous value, every valid token of the batch maps to the data of
\* the last valid project of the batch with that token (as main holds it, with
\* the benchmark scores validated against the sheet when one was loaded), and
\* success_count plus error_count is the number of parsed projects.
C30_MergeLastWins ==
    (pc = "returned" /\ call.op = "main_googledoc" /\ call.projects # <<>>)
    => LET m == out.merged
       IN /\ \A t \in DOMAIN call.existing_data \ BatchTokens :
                t \in DOMAIN m.file /\ m.file[t] = call.existing_data[t]
          /\ \A t \in BatchTokens :
                ValidWith(t) # {}
                => /\ t \in DOMAIN m.file
                   /\ m.file[t] = Scored(t, call.projects[Max(ValidWith(t))].value.dict,
                                         call.scores_df).project
          /\ m.success_count + m.error_count = Len(call.projects)

\* A batch with two valid projects of one token and different data and an
\* invalid project was merged into an existing file holding that token and a
\* token that is not in the batch.
C30_Witness ==
    /\ pc = "returned" /\ call.op = "main_googledoc"
    /\ Len(call.projects) = 3
    /\ \E t \in BatchTokens :
          /\ Cardinality(ValidWith(t)) = 2
          /\ call.projects[Min(ValidWith(t))].value # call.projects[Max(ValidWith(t))].value
          /\ t \in DOMAIN call.existing_data
          /\ out.merged.file[t] # call.existing_data[t]
    /\ \E k \in 1..3 : ~ValidAt(k)
    /\ DOMAIN call.existing_data \ BatchTokens # {}
    /\ out.merged.success_count = 2 /\ out.merged.error_count = 1

====
